-------------------------- MODULE SessionStoreProofs --------------------------
(***************************************************************************)
(* The session inventory (SessionStore), proved for any numbers of         *)
(* sessions, tokens, users and callers, and any mixes of them.  What a     *)
(* caller has read may be stale by the time it is used; the invariants say *)
(* what of it stays true: a record, once written, keeps its session and    *)
(* its generation, and a session that is over stays over.                  *)
(***************************************************************************)
EXTENDS SessionStore, TLAPS

Used(t) == rec[t].st # "unused"

\* A session that was created and has no usable record left.
Over(s) == s \in Sids /\ Known(s) /\ ~Live(s)

-----------------------------------------------------------------------------
(* Inductive invariants *)

\* The keys: records name sessions, locators name records of their session,
\* and the index holds sessions that were created.
Minted  == \A t \in Tokens : Used(t) <=> rec[t].sid # Nil
Located == \A s \in Sids : loc[s] # Nil => rec[loc[s]].sid = s
Indexed == \A s \in idx : Known(s)
KeysInv == Minted /\ OneToken /\ Located /\ Indexed

Looks(l, j) == \/ l \in {"fetch", "delLocator", "zremHeal", "zremWalk", "delete"}
               \/ l = "purge" /\ j.op # "list"

\* What a caller with job j that is at l does, ...
Stage(l, j) ==
  /\ IF l = "idle" THEN j.todo = {} ELSE j.reply = "none" /\ j.op # "none"
  /\ l \in {"range", "mgetLocators", "mgetRecords", "heal"} => j.op = "list"
  /\ l \in {"next", "fetch", "delLocator", "zremHeal", "zremWalk", "delete"} => j.op # "list"
  /\ l = "zremWalk" => j.op \in {"others", "epoch"}
  /\ j.first => j.op = "revoke"
  /\ j.op = "list" => j.keep = Nil
  /\ j.dead # {} => j.op = "list" /\ l \in {"heal", "purge"}

\* ... the session it is at, ...
Aim(l, j) ==
  /\ j.keep \notin j.todo
  /\ Looks(l, j) => j.sid \in Sids /\ j.sid # j.keep
  /\ l \in {"fetch", "delete", "purge"} => j.hash \in Tokens
  /\ l \in {"fetch", "delete"} => rec[j.hash].sid = j.sid
  /\ l = "delete" => Owner[j.sid] = j.user /\ (j.op = "epoch" => ~rec[j.hash].fresh)

\* ... and what it has read.
Seen(j) ==
  /\ \A s \in Sids : j.found[s] # Nil => rec[j.found[s]].sid = s
  /\ \A s \in j.dead : j.found[s] # Nil
  /\ j.op # "revoke" => \A s \in j.todo : Known(s)

Fits(l, j) == Stage(l, j) /\ Aim(l, j) /\ Seen(j)
JobsFit == \A c \in Callers : Fits(pc[c], job[c])

StoreInv == TypeOK /\ KeysInv /\ JobsFit

\* In a steady mix a session has one record ever, of the old generation, and
\* the inventory is complete.
Single == \A x, y \in Tokens : Used(x) /\ Used(y) /\ rec[x].sid = rec[y].sid => x = y
Complete == \A t \in Tokens : Usable(t) => loc[rec[t].sid] = t /\ rec[t].sid \in idx
CalmKeys ==
  /\ rotating = {}
  /\ Single
  /\ \A t \in Tokens : ~rec[t].fresh
  /\ \A t \in touching : Exists(t) => ~rec[t].dead
  /\ Complete

\* What a caller heals, purges or leaves behind is over.
Sound(l, j) ==
  /\ \A s \in j.victims : Over(s)
  /\ l # "idle" \/ j.reply = "ok" => \A s \in j.aims : s \in j.todo \/ Over(s)
  /\ j.op \in {"others", "epoch"} => \A s \in j.aims : Owner[s] = j.user
  /\ j.op = "list" => j.aims = {}
  /\ l \in {"delLocator", "zremHeal"} \/ (l = "purge" /\ j.op # "list") => Over(j.sid)
  /\ l = "zremWalk" => Over(j.sid) \/ Owner[j.sid] # j.user
  /\ l = "mgetRecords" => \A s \in j.todo : j.found[s] = Nil => Over(s)
  /\ l = "heal" \/ (l = "purge" /\ j.op = "list") => \A s \in j.todo : Over(s)
JobsSound == \A c \in Callers : Sound(pc[c], job[c])

CalmInv == Steady => CalmKeys /\ JobsSound

-----------------------------------------------------------------------------
(* Steps *)

\* Every step is a client's, or a caller's of the mix.
ClientStep(t) ==
  \/ \E s \in Sids : Create(s, t)
  \/ TouchRead(t) \/ TouchWrite(t) \/ RotateRead(t)
  \/ \E new \in Tokens : RotateWrite(t, new)
  \/ EndByToken(t) \/ Idle(t) \/ Evaporate(t)
Begin(c, u) ==
  \/ \E s \in Sids : StartRevoke(c, s, u)
  \/ \E op \in {"others", "epoch"}, keep \in Sids \cup {Nil} : StartWalk(c, op, u, keep)
  \/ StartList(c, u)

LEMMA Steps ==
  ASSUME TypeOK, Next
  PROVE  /\ mix' = mix
         /\ \/ \E t \in Tokens : ClientStep(t)
            \/ \E c \in Callers, u \in Users : Begin(c, u)
            \/ \E c \in Callers : Step(c)
<1>1. mix.callers \subseteq Callers /\ mix.users \subseteq Users
  BY SessionAssumption DEF TypeOK, Mix
<1>2. mix' = mix /\ Move
  BY DEF Next
<1>3. ASSUME NEW t \in Tokens,
             \/ \E s \in Sids : Create(s, t)
             \/ TouchRead(t) \/ TouchWrite(t) \/ RotateRead(t)
             \/ \E new \in Tokens : RotateWrite(t, new)
             \/ EndByToken(t) \/ Idle(t) \/ Evaporate(t)
      PROVE  ClientStep(t)
  BY <1>3 DEF ClientStep
<1>4. ASSUME NEW c \in mix.callers, NEW u \in mix.users,
             \/ \E s \in Sids : StartRevoke(c, s, u)
             \/ \E op \in mix.ops, keep \in Sids \cup {Nil} : StartWalk(c, op, u, keep)
             \/ StartList(c, u)
      PROVE  Begin(c, u)
  <2>1. ASSUME NEW op \in mix.ops, NEW keep \in Sids \cup {Nil}, StartWalk(c, op, u, keep)
        PROVE  op \in {"others", "epoch"}
    <3>1. mix.ops \subseteq AllOps
      BY SessionAssumption DEF TypeOK, Mix
    <3> QED
      BY <2>1, <3>1 DEF StartWalk, AllOps
  <2> QED
    BY <1>4, <2>1 DEF Begin
<1> QED
  BY <1>1, <1>2, <1>3, <1>4 DEF Move

-----------------------------------------------------------------------------
(* Keys *)

\* What callers do to the keys.
Unlocate(s) == loc' = [loc EXCEPT ![s] = Nil] /\ UNCHANGED <<rec, idx>>
Unindex     == idx' \subseteq idx /\ UNCHANGED <<rec, loc>>
CallerKeys  == \/ UNCHANGED keys
               \/ \E t \in Tokens : Delete(t)
               \/ \E s \in Sids : Unlocate(s)
               \/ Unindex

KeysType == /\ rec \in [Tokens -> Record] /\ loc \in [Sids -> Hash] /\ idx \subseteq Sids

\* A record keeps its session and its generation.
Lasting ==
  \A t \in Tokens : Used(t) =>
    Used(t)' /\ rec'[t].sid = rec[t].sid /\ rec'[t].fresh = rec[t].fresh

LEMMA NilElsewhere == Nil \notin Sids /\ Nil \notin Tokens /\ Nil \notin Users
  BY SessionAssumption

LEMMA DeleteKeys ==
  ASSUME KeysType, KeysInv, NEW t \in Tokens, Delete(t)
  PROVE  KeysType' /\ KeysInv' /\ Lasting
<1>1. CASE ~Exists(t)
  BY <1>1 DEF Delete, keys, KeysType, KeysInv, Minted, OneToken, Located, Indexed, Lasting,
              Used, Exists, Known
<1>2. CASE Exists(t)
  <2>1. /\ rec' = [rec EXCEPT ![t].st = "gone"]
        /\ loc' = [loc EXCEPT ![rec[t].sid] = Nil]
        /\ idx' = idx \ {rec[t].sid}
    BY <1>2 DEF Delete
  <2>2. \A x \in Tokens : /\ rec'[x].sid = rec[x].sid /\ rec'[x].fresh = rec[x].fresh
                          /\ rec'[x].st = IF x = t THEN "gone" ELSE rec[x].st
    BY <2>1 DEF KeysType, Record
  <2>3. KeysType'
    BY <2>1 DEF KeysType, Record, Hash
  <2>4. Lasting
    BY <2>2 DEF Lasting, Used, KeysType, Record
  <2>5. Minted'
    BY <1>2, <2>2 DEF KeysInv, Minted, Used, Exists
  <2>5a. OneToken'
    BY <1>2, <2>2 DEF KeysInv, OneToken, Exists
  <2>6. Located'
    BY <2>1, <2>2 DEF KeysInv, Located, KeysType, Record, Hash
  <2>7. Indexed'
    BY <2>1, <2>2 DEF KeysInv, Indexed, Known, KeysType, Record
  <2> QED
    BY <2>3, <2>4, <2>5, <2>6, <2>7, <2>5a DEF KeysInv
<1> QED
  BY <1>1, <1>2

LEMMA CallerKeysKept ==
  ASSUME KeysType, KeysInv, CallerKeys
  PROVE  KeysType' /\ KeysInv' /\ Lasting
<1>1. CASE UNCHANGED keys
  BY <1>1 DEF keys, KeysType, KeysInv, Minted, OneToken, Located, Indexed, Lasting,
              Used, Exists, Known
<1>2. CASE \E s \in Sids : Unlocate(s)
  BY <1>2, NilElsewhere DEF Unlocate, KeysType, KeysInv, Minted, OneToken, Located, Indexed, Lasting,
              Used, Exists, Known, Hash
<1>3. CASE Unindex
  BY <1>3 DEF Unindex, KeysType, KeysInv, Minted, OneToken, Located, Indexed, Lasting,
              Used, Exists, Known, Hash
<1> QED
  BY <1>1, <1>2, <1>3, DeleteKeys DEF CallerKeys

LEMMA CreateKeys ==
  ASSUME KeysType, KeysInv, NEW s \in Sids, NEW t \in Tokens, Create(s, t)
  PROVE  KeysType' /\ KeysInv' /\ Lasting
<1>1. /\ rec' = [rec EXCEPT ![t] = [st |-> "live", sid |-> s, dead |-> FALSE, fresh |-> FALSE]]
      /\ loc' = [loc EXCEPT ![s] = t] /\ idx' = idx \cup {s}
      /\ ~Used(t) /\ \A x \in Tokens : rec[x].sid # s
  BY DEF Create, Inventory, Used, Known
<1>2. /\ \A x \in Tokens : x # t => rec'[x] = rec[x]
      /\ rec'[t].sid = s /\ rec'[t].st = "live"
  BY <1>1 DEF KeysType, Record
<1>3. KeysType'
  BY <1>1 DEF KeysType, Record, Hash
<1>4. Lasting
  BY <1>1, <1>2 DEF Lasting, Used
<1>5. Minted' /\ OneToken'
  BY <1>1, <1>2, NilElsewhere DEF KeysInv, Minted, OneToken, Used, Exists
<1>6. Located'
  BY <1>1, <1>2, NilElsewhere DEF KeysInv, Located, KeysType, Hash, Minted, Used
<1>7. Indexed'
  BY <1>1, <1>2, <1>4, NilElsewhere DEF KeysInv, Indexed, Known, KeysType, Minted, Lasting, Used
<1> QED
  BY <1>3, <1>4, <1>5, <1>6, <1>7 DEF KeysInv

\* A touch or the deadline rewrites a record in place.
LEMMA InPlaceKeys ==
  ASSUME KeysType, KeysInv, NEW t \in Tokens, Exists(t),
         NEW st \in {"live", "gone"}, NEW dead \in BOOLEAN,
         rec' = [rec EXCEPT ![t] = [@ EXCEPT !.st = st, !.dead = dead]],
         \/ Inventory(t, rec[t].sid)
         \/ UNCHANGED <<loc, idx>>
         \/ loc' = [loc EXCEPT ![rec[t].sid] = Nil] /\ idx' = idx
  PROVE  KeysType' /\ KeysInv' /\ Lasting
<1>1. rec[t].sid \in Sids
  BY DEF KeysInv, Minted, Used, Exists, KeysType, Record
<1>2. \A x \in Tokens : /\ rec'[x].sid = rec[x].sid /\ rec'[x].fresh = rec[x].fresh
                        /\ rec'[x].st = IF x = t THEN st ELSE rec[x].st
  BY DEF KeysType, Record
<1>3. KeysType'
  <2>1. [rec[t] EXCEPT !.st = st, !.dead = dead] \in Record
    <3>1. rec[t] \in Record
      BY DEF KeysType
    <3> QED
      BY <3>1 DEF Record
  <2> QED
    BY <1>1, <2>1 DEF KeysType, Inventory, Hash
<1>4. Lasting
  BY <1>2 DEF Lasting, Used
<1>5. Minted' /\ OneToken'
  BY <1>2 DEF KeysInv, Minted, OneToken, Used, Exists
<1>6. Located'
  BY <1>1, <1>2 DEF KeysInv, Located, KeysType, Hash, Inventory
<1>7. Indexed'
  BY <1>1, <1>2 DEF KeysInv, Indexed, Known, KeysType, Inventory
<1> QED
  BY <1>3, <1>4, <1>5, <1>6, <1>7 DEF KeysInv

LEMMA RotateKeys ==
  ASSUME KeysType, KeysInv, NEW t \in Tokens, NEW new \in Tokens, Exists(t), ~Used(new),
         rec' = [rec EXCEPT ![t].st = "gone",
               ![new] = [st |-> "live", sid |-> rec[t].sid, dead |-> FALSE, fresh |-> TRUE]],
         Inventory(new, rec[t].sid)
  PROVE  KeysType' /\ KeysInv' /\ Lasting
<1>1. rec[t].sid \in Sids /\ t # new
  BY DEF KeysInv, Minted, Used, Exists, KeysType, Record
<1>2. /\ \A x \in Tokens : x # new => /\ rec'[x].sid = rec[x].sid /\ rec'[x].fresh = rec[x].fresh
                                      /\ x # t => rec'[x].st = rec[x].st
      /\ rec'[t].st = "gone"
      /\ rec'[new].sid = rec[t].sid /\ rec'[new].st = "live"
  BY <1>1 DEF KeysType, Record
<1>3. KeysType'
  BY <1>1 DEF KeysType, Record, Inventory, Hash
<1>2a. \A x \in Tokens : Used(x)' <=> Used(x) \/ x = new
  <2>1. \A x \in Tokens : x # new => (Used(x)' <=> Used(x))
    <3> TAKE x \in Tokens
    <3>1. CASE x = t
      BY <3>1, <1>2 DEF Used, Exists
    <3>2. CASE x # t
      BY <3>2, <1>2 DEF Used
    <3> QED
      BY <3>1, <3>2
  <2> QED
    BY <2>1, <1>2 DEF Used
<1>4. Lasting
  BY <1>2, <1>2a DEF Lasting
<1>5. Minted'
  BY ZenonT(120), <1>1, <1>2, <1>2a, NilElsewhere DEF KeysInv, Minted
<1>6. OneToken'
  <2>1. \A x \in Tokens : Exists(x)' => x = new \/ (x # t /\ Exists(x))
    BY <1>1, <1>2 DEF Exists
  <2>2. \A x \in Tokens : x # t /\ Exists(x) => rec[x].sid # rec[t].sid
    BY DEF KeysInv, OneToken
  <2>3. SUFFICES ASSUME NEW x \in Tokens, NEW y \in Tokens, Exists(x)', Exists(y)',
                        rec'[x].sid = rec'[y].sid
                 PROVE  x = y
    BY DEF OneToken
  <2>4. CASE x = new \/ y = new
    BY ZenonT(120), <2>1, <2>2, <2>3, <2>4, <1>2
  <2>5. CASE x # new /\ y # new
    BY <2>1, <2>3, <2>5, <1>2 DEF KeysInv, OneToken
  <2> QED
    BY <2>4, <2>5
<1>7. Located'
  BY <1>1, <1>2, NilElsewhere DEF KeysInv, Located, KeysType, Hash, Inventory, Minted, Used
<1>8. Indexed'
  <2>1. \A s \in Sids : Known(s) => Known(s)'
    BY ZenonT(120), <1>1, <1>2, <1>4, NilElsewhere DEF Known, Lasting, KeysInv, Minted
  <2>2. Known(rec[t].sid)
    BY DEF Known
  <2> QED
    BY <1>1, <2>1, <2>2 DEF KeysInv, Indexed, KeysType, Inventory
<1> QED
  BY <1>3, <1>4, <1>5, <1>6, <1>7, <1>8 DEF KeysInv

\* A session that was created stays created.
LEMMA KnownLasts ==
  ASSUME KeysInv, Lasting, NEW s \in Sids, Known(s)
  PROVE  Known(s)'
<1>1. PICK t \in Tokens : rec[t].sid = s
  BY DEF Known
<1>2. Used(t)
  BY <1>1, NilElsewhere DEF KeysInv, Minted
<1> QED
  BY <1>1, <1>2 DEF Known, Lasting

\* A client's step keeps the invariant of the keys, and the callers' state.
LEMMA ClientKeys ==
  ASSUME TypeOK, KeysInv, NEW t \in Tokens, ClientStep(t)
  PROVE  KeysType' /\ KeysInv' /\ Lasting
<1>0. KeysType
  BY DEF TypeOK, KeysType
<1>1. ASSUME UNCHANGED keys PROVE KeysType' /\ KeysInv' /\ Lasting
  BY <1>0, <1>1, CallerKeysKept DEF CallerKeys
<1>2. ASSUME NEW s \in Sids, Create(s, t) PROVE KeysType' /\ KeysInv' /\ Lasting
  BY <1>0, <1>2, CreateKeys
<1>3. CASE TouchRead(t) \/ RotateRead(t)
  BY <1>1, <1>3 DEF TouchRead, RotateRead
<1>4. CASE TouchWrite(t)
  <2>1. CASE Exists(t)
    <3>1. /\ rec' = [rec EXCEPT ![t] = [@ EXCEPT !.st = "live", !.dead = FALSE]]
          /\ Inventory(t, rec[t].sid)
      BY <1>4, <2>1 DEF TouchWrite, Refreshable, Reindex
    <3> QED
      BY <1>0, <2>1, <3>1, InPlaceKeys
  <2> QED
    BY <1>1, <1>4, <2>1 DEF TouchWrite, Refreshable
<1>5. ASSUME NEW new \in Tokens, RotateWrite(t, new) PROVE KeysType' /\ KeysInv' /\ Lasting
  <2>1. CASE Exists(t)
    BY <1>0, <1>5, <2>1, RotateKeys DEF RotateWrite, Rotatable, Used
  <2> QED
    BY <1>1, <1>5, <2>1 DEF RotateWrite, Rotatable
<1>6. CASE EndByToken(t)
  BY <1>0, <1>6, DeleteKeys DEF EndByToken
<1>7. CASE Idle(t)
  <2>1. /\ Exists(t) /\ UNCHANGED <<loc, idx>>
        /\ rec' = [rec EXCEPT ![t].dead = TRUE]
    BY <1>7 DEF Idle, Usable
  <2>2. rec' = [rec EXCEPT ![t] = [@ EXCEPT !.st = "live", !.dead = TRUE]]
    BY <1>0, <2>1 DEF Exists, KeysType, Record
  <2> QED
    BY <1>0, <2>1, <2>2, InPlaceKeys
<1>8. CASE Evaporate(t)
  <2>1. /\ Exists(t) /\ rec[t].dead /\ idx' = idx
        /\ rec' = [rec EXCEPT ![t].st = "gone"]
        /\ loc' = [loc EXCEPT ![rec[t].sid] = Nil] \/ loc' = loc
    BY <1>8 DEF Evaporate
  <2>2. rec' = [rec EXCEPT ![t] = [@ EXCEPT !.st = "gone", !.dead = TRUE]]
    BY <1>0, <2>1 DEF Exists, KeysType, Record
  <2> QED
    BY <1>0, <2>1, <2>2, InPlaceKeys
<1> QED
  BY <1>2, <1>3, <1>4, <1>5, <1>6, <1>7, <1>8 DEF ClientStep

-----------------------------------------------------------------------------
(* Jobs *)

\* A step of c leaves the others alone, and its new job fits the keys.
Turn(c, l, j) == pc' = [pc EXCEPT ![c] = l] /\ job' = [job EXCEPT ![c] = j]
Turns(c) == \E l \in Labels, j \in Job : Turn(c, l, j) /\ Fits(l, j)

LEMMA JobTypes ==
  ASSUME TypeOK, NEW c \in Callers
  PROVE  pc[c] \in Labels /\ job[c] \in Job
  BY DEF TypeOK

LEMMA NewJob ==
  ASSUME NEW c \in Callers, NEW l \in Labels, NEW j \in Job, Goto(c, l),
         job' = [job EXCEPT ![c] = j], Fits(l, j)
  PROVE  Turns(c)
  BY DEF Turns, Turn, Goto

LEMMA SameJob ==
  ASSUME TypeOK, NEW c \in Callers, NEW l \in Labels, Goto(c, l), UNCHANGED job,
         Fits(l, job[c])
  PROVE  Turns(c)
<1>1. job' = [job EXCEPT ![c] = job[c]]
  BY DEF TypeOK
<1> QED
  BY <1>1, NewJob, JobTypes

Ended(j, answer) == [NoJob EXCEPT !.op = j.op, !.user = j.user, !.aims = j.aims,
                                  !.victims = j.victims, !.reply = answer]

LEMMA EndedJob ==
  ASSUME NEW j \in Job, NEW answer \in {"none", "ok", "notFound", "error"}
  PROVE  Ended(j, answer) \in Job /\ Fits("idle", Ended(j, answer))
<1>1. Ended(j, answer) \in Job
  BY DEF Ended, NoJob, Job, Hash
<1>2. /\ Ended(j, answer).first = FALSE /\ Ended(j, answer).dead = {}
      /\ Ended(j, answer).todo = {} /\ Ended(j, answer).keep = Nil
      /\ \A s \in Sids : Ended(j, answer).found[s] = Nil
  BY DEF Ended, NoJob
<1> QED
  BY <1>1, <1>2 DEF Fits, Stage, Aim, Seen, Looks

LEMMA EndTurns ==
  ASSUME TypeOK, NEW c \in Callers, NEW answer \in {"ok", "notFound", "error"}, End(c, answer)
  PROVE  Turns(c)
<1>1. Goto(c, "idle") /\ job' = [job EXCEPT ![c] = Ended(job[c], answer)]
  BY DEF End, Ended
<1> QED
  BY <1>1, NewJob, EndedJob, JobTypes DEF Labels

LEMMA DroppedJob ==
  ASSUME NEW j \in Job, NEW l \in Labels, Fits(l, j), l # "idle", j.op # "list"
  PROVE  Dropped(j) \in Job /\ Fits("next", Dropped(j))
<1>1. Dropped(j) \in Job
  BY DEF Dropped, Job, Hash
<1>2. /\ Dropped(j).first = j.first /\ Dropped(j).dead = j.dead /\ Dropped(j).op = j.op
      /\ Dropped(j).todo \subseteq j.todo /\ Dropped(j).keep = j.keep
      /\ Dropped(j).reply = j.reply /\ Dropped(j).found = j.found
  BY DEF Dropped, Job
<1> QED
  BY <1>1, <1>2 DEF Fits, Stage, Aim, Seen, Looks

LEMMA AdvanceTurns ==
  ASSUME TypeOK, NEW c \in Callers, Fits(pc[c], job[c]), pc[c] # "idle", job[c].op # "list",
         Advance(c)
  PROVE  Turns(c)
<1>1. Goto(c, "next") /\ job' = [job EXCEPT ![c] = Dropped(job[c])]
  BY DEF Advance
<1> QED
  BY <1>1, NewJob, DroppedJob, JobTypes DEF Labels

LEMMA MissTurns ==
  ASSUME TypeOK, NEW c \in Callers, Fits(pc[c], job[c]), pc[c] \in {"fetch", "zremHeal"}, Miss(c)
  PROVE  Turns(c)
<1>1. CASE Walks(c)
  <2>1. Fits("zremWalk", job[c])
    BY <1>1 DEF Fits, Stage, Aim, Looks, Walks
  <2> QED
    BY <1>1, <2>1, SameJob DEF Miss, Labels
<1> QED
  BY <1>1, EndTurns DEF Miss

LEMMA AbortTurns == ASSUME TypeOK, NEW c \in Callers, Abort(c) PROVE Turns(c)
  BY EndTurns DEF Abort

-----------------------------------------------------------------------------
(* Operations begin *)

LEMMA RevokeBegins ==
  ASSUME TypeOK, NEW c \in Callers, NEW u \in Users, NEW s \in Sids, StartRevoke(c, s, u)
  PROVE  Turns(c)
<1> DEFINE j == [NoJob EXCEPT !.op = "revoke", !.user = u, !.first = TRUE,
                              !.todo = {s}, !.aims = {s}]
<1>1. j \in Job
  BY DEF NoJob, Job, Hash, AllOps
<1>2. Fits("next", j)
  BY NilElsewhere DEF Fits, Stage, Aim, Seen, Looks, NoJob
<1>3. Goto(c, "next") /\ job' = [job EXCEPT ![c] = j]
  BY DEF StartRevoke
<1> QED
  BY <1>1, <1>2, <1>3, NewJob DEF Labels

LEMMA WalkBegins ==
  ASSUME TypeOK, KeysInv, NEW c \in Callers, NEW u \in Users, NEW op \in {"others", "epoch"},
         NEW keep \in Sids \cup {Nil}, StartWalk(c, op, u, keep)
  PROVE  Turns(c)
<1> DEFINE j == [NoJob EXCEPT !.op = op, !.user = u, !.keep = keep,
                     !.todo = Targets(Members(u), keep),
                     !.aims = {s \in Sids : Owner[s] = u /\ Live(s) /\ s # keep}]
<1>1. Targets(Members(u), keep) \subseteq idx \ {keep} /\ idx \subseteq Sids
  BY DEF Targets, Members, TypeOK
<1>2. j \in Job
  BY <1>1 DEF NoJob, Job, Hash, AllOps
<1>3. Fits("next", j)
  BY <1>1, NilElsewhere DEF Fits, Stage, Aim, Seen, Looks, NoJob, KeysInv, Indexed
<1>4. Goto(c, "next") /\ job' = [job EXCEPT ![c] = j]
  BY DEF StartWalk
<1> QED
  BY <1>2, <1>3, <1>4, NewJob DEF Labels

LEMMA ListBegins ==
  ASSUME TypeOK, NEW c \in Callers, NEW u \in Users, StartList(c, u)
  PROVE  Turns(c)
<1> DEFINE j == [NoJob EXCEPT !.op = "list", !.user = u]
<1>1. j \in Job
  BY DEF NoJob, Job, Hash, AllOps
<1>2. Fits("range", j)
  BY NilElsewhere DEF Fits, Stage, Aim, Seen, Looks, NoJob
<1>3. Goto(c, "range") /\ job' = [job EXCEPT ![c] = j]
  BY DEF StartList
<1> QED
  BY <1>1, <1>2, <1>3, NewJob DEF Labels

-----------------------------------------------------------------------------
(* Revocations and walks *)

LEMMA LocateTurns ==
  ASSUME StoreInv, NEW c \in Callers, NEW s \in Sids, Locate(c, s)
  PROVE  Turns(c)
<1>1. TypeOK /\ Fits(pc[c], job[c]) /\ Located /\ job[c] \in Job
  BY JobTypes DEF StoreInv, KeysInv, JobsFit
<1>2. pc[c] = "next" /\ s \in job[c].todo
  BY DEF Locate
<1> DEFINE j == [job[c] EXCEPT !.sid = s, !.hash = loc[s]]
<1>3. /\ j \in Job /\ j.sid = s /\ j.hash = loc[s]
      /\ j.op = job[c].op /\ j.keep = job[c].keep /\ j.todo = job[c].todo
      /\ j.first = job[c].first /\ j.dead = job[c].dead /\ j.found = job[c].found
      /\ j.reply = job[c].reply
  BY <1>1 DEF TypeOK, Job
<1> HIDE DEF j
<1>4. CASE loc[s] # Nil /\ job' = [job EXCEPT ![c] = j] /\ Goto(c, "fetch")
  <2>1. Fits("fetch", j)
    BY <1>1, <1>2, <1>3, <1>4 DEF Fits, Stage, Aim, Seen, Looks, Located, TypeOK, Hash
  <2> QED
    BY <1>3, <1>4, <2>1, NewJob DEF Labels
<1>5. CASE loc[s] = Nil /\ Walks(c) /\ job' = [job EXCEPT ![c] = j] /\ Goto(c, "zremWalk")
  <2>1. Fits("zremWalk", j)
    BY <1>1, <1>2, <1>3, <1>5 DEF Fits, Stage, Aim, Seen, Looks, Walks
  <2> QED
    BY <1>3, <1>5, <2>1, NewJob DEF Labels
<1>6. CASE End(c, "notFound") \/ Abort(c)
  BY <1>1, <1>6, EndTurns, AbortTurns
<1> QED
  BY <1>4, <1>5, <1>6 DEF Locate, j

LEMMA FetchTurns ==
  ASSUME StoreInv, NEW c \in Callers, Fetch(c)
  PROVE  Turns(c)
<1>1. TypeOK /\ Fits(pc[c], job[c]) /\ job[c] \in Job
  BY JobTypes DEF StoreInv, JobsFit
<1>2. pc[c] = "fetch"
  BY DEF Fetch
<1>3. CASE Goto(c, "delLocator") /\ UNCHANGED job
  <2>1. Fits("delLocator", job[c])
    BY <1>1, <1>2 DEF Fits, Stage, Aim, Looks
  <2> QED
    BY <1>1, <1>3, <2>1, SameJob DEF Labels
<1>4. CASE Miss(c) \/ Abort(c)
  BY <1>1, <1>2, <1>4, MissTurns, AbortTurns
<1>5. CASE Goto(c, "purge") /\ UNCHANGED job
  <2>1. Fits("purge", job[c])
    BY <1>1, <1>2 DEF Fits, Stage, Aim, Looks
  <2> QED
    BY <1>1, <1>5, <2>1, SameJob DEF Labels
<1>6. CASE Advance(c)
  BY <1>1, <1>2, <1>6, AdvanceTurns DEF Fits, Stage
<1>7. CASE Goto(c, "next") /\ job' = [job EXCEPT ![c] =
             [@ EXCEPT !.first = FALSE, !.sid = Nil, !.hash = Nil]]
  <2> DEFINE j == [job[c] EXCEPT !.first = FALSE, !.sid = Nil, !.hash = Nil]
  <2>1. j \in Job /\ job' = [job EXCEPT ![c] = j]
    BY <1>1, <1>7 DEF Job, Hash
  <2>2. Fits("next", j)
    BY <1>1, <1>2 DEF Fits, Stage, Aim, Seen, Looks, Job
  <2> QED
    BY <1>7, <2>1, <2>2, NewJob DEF Labels
<1>8. CASE /\ Goto(c, "delete") /\ UNCHANGED job
           /\ ~Foreign(job[c].sid, job[c].user, rec[job[c].hash])
           /\ ~(job[c].op = "epoch" /\ rec[job[c].hash].fresh)
  <2>1. Fits("delete", job[c])
    BY <1>1, <1>2, <1>8 DEF Fits, Stage, Aim, Looks, Foreign
  <2> QED
    BY <1>1, <1>8, <2>1, SameJob DEF Labels
<1> QED
  BY <1>3, <1>4, <1>5, <1>6, <1>7, <1>8 DEF Fetch

LEMMA HealTurns ==
  ASSUME StoreInv, NEW c \in Callers, HealLocator(c) \/ HealIndex(c) \/ HealWalk(c)
  PROVE  Turns(c)
<1>1. TypeOK /\ Fits(pc[c], job[c]) /\ job[c] \in Job
  BY JobTypes DEF StoreInv, JobsFit
<1>2. CASE HealLocator(c)
  <2>1. pc[c] = "delLocator" /\ Goto(c, "zremHeal") /\ UNCHANGED job
    BY <1>2 DEF HealLocator
  <2>2. Fits("zremHeal", job[c])
    BY <1>1, <2>1 DEF Fits, Stage, Aim, Looks
  <2> QED
    BY <1>1, <2>1, <2>2, SameJob DEF Labels
<1>3. CASE HealIndex(c)
  BY <1>1, <1>3, MissTurns DEF HealIndex
<1>4. CASE HealWalk(c)
  BY <1>1, <1>4, AdvanceTurns DEF HealWalk, Fits, Stage
<1> QED
  BY <1>2, <1>3, <1>4

LEMMA RevokeTurns ==
  ASSUME StoreInv, NEW c \in Callers, Revoke(c)
  PROVE  Turns(c)
<1>1. TypeOK /\ Fits(pc[c], job[c]) /\ job[c] \in Job /\ pc[c] = "delete"
  BY JobTypes DEF StoreInv, JobsFit, Revoke
<1>2. CASE Abort(c)
  BY <1>1, <1>2, AbortTurns
<1>3. CASE Goto(c, "next") /\ job' = [job EXCEPT ![c] = Reported(job[c])]
  <2> DEFINE d == Dropped(job[c])
             j == [d EXCEPT !.victims = d.victims \cup {job[c].sid}]
  <2>1. d \in Job /\ Fits("next", d) /\ job[c].sid \in Sids
    <3>1. Fits("delete", job[c]) /\ job[c].op # "list" /\ job[c].sid \in Sids
      BY <1>1 DEF Fits, Stage, Aim, Looks
    <3> QED
      BY <1>1, <3>1, DroppedJob DEF Labels
  <2>2. job' = [job EXCEPT ![c] = j]
    BY <1>1, <1>3 DEF Reported, Dropped, Job
  <2> HIDE DEF d
  <2>3. j \in Job
    BY <2>1 DEF Job
  <2>4. Fits("next", j)
    BY <2>1 DEF Fits, Stage, Aim, Seen, Looks, Job
  <2> QED
    BY <1>3, <2>2, <2>3, <2>4, NewJob DEF Labels
<1> QED
  BY <1>2, <1>3 DEF Revoke

LEMMA PurgeTurns ==
  ASSUME StoreInv, NEW c \in Callers, Purge(c)
  PROVE  Turns(c)
<1>1. TypeOK /\ Fits(pc[c], job[c]) /\ job[c] \in Job /\ pc[c] = "purge"
  BY JobTypes DEF StoreInv, JobsFit, Purge
<1>2. CASE job[c].op = "revoke"
  BY <1>1, <1>2, EndTurns DEF Purge
<1>3. CASE job[c].op = "list"
  <2> DEFINE j == [job[c] EXCEPT !.hash = Nil]
  <2>1. Goto(c, "heal") /\ job' = [job EXCEPT ![c] = j]
    BY <1>1, <1>3 DEF Purge, TypeOK
  <2>2. j \in Job
    BY <1>1 DEF Job, Hash
  <2>3. Fits("heal", j)
    BY <1>1, <1>3 DEF Fits, Stage, Aim, Seen, Looks, Job
  <2> QED
    BY <2>1, <2>2, <2>3, NewJob DEF Labels
<1>4. CASE job[c].op \notin {"revoke", "list"}
  BY <1>1, <1>4, AdvanceTurns DEF Purge
<1> QED
  BY <1>2, <1>3, <1>4

LEMMA FinishTurns ==
  ASSUME StoreInv, NEW c \in Callers, Finish(c) \/ FinishList(c)
  PROVE  Turns(c)
  BY EndTurns DEF StoreInv, Finish, FinishList

-----------------------------------------------------------------------------
(* Listings *)

LEMMA RangeTurns ==
  ASSUME StoreInv, NEW c \in Callers, Range(c)
  PROVE  Turns(c)
<1>1. TypeOK /\ Fits(pc[c], job[c]) /\ job[c] \in Job /\ pc[c] = "range" /\ Indexed
  BY JobTypes DEF StoreInv, JobsFit, Range, KeysInv
<1>2. CASE Abort(c)
  BY <1>1, <1>2, AbortTurns
<1>3. CASE Goto(c, "mgetLocators") /\ job' = [job EXCEPT ![c].todo = Members(job[c].user)]
  <2> DEFINE j == [job[c] EXCEPT !.todo = Members(job[c].user)]
  <2>1. job' = [job EXCEPT ![c] = j]
    BY <1>3
  <2>2. Members(job[c].user) \subseteq idx /\ idx \subseteq Sids
    BY <1>1 DEF Members, TypeOK
  <2>3. j \in Job
    BY <1>1, <2>2 DEF Job
  <2>4. j.keep = Nil
    BY <1>1 DEF Fits, Stage, Job
  <2>5. Fits("mgetLocators", j)
    BY <1>1, <2>2, <2>3, <2>4, NilElsewhere DEF Fits, Stage, Aim, Seen, Looks, Job, Indexed
  <2> QED
    BY <1>3, <2>1, <2>3, <2>5, NewJob DEF Labels
<1> QED
  BY <1>2, <1>3 DEF Range

LEMMA LocatorTurns ==
  ASSUME StoreInv, NEW c \in Callers, MGetLocators(c)
  PROVE  Turns(c)
<1>1. /\ TypeOK /\ Fits(pc[c], job[c]) /\ job[c] \in Job /\ pc[c] = "mgetLocators" /\ Located
  BY JobTypes DEF StoreInv, JobsFit, MGetLocators, KeysInv
<1> DEFINE seen == [s \in Sids |-> IF s \in job[c].todo THEN loc[s] ELSE Nil]
           j    == [job[c] EXCEPT !.found = seen]
<1>2. CASE Abort(c)
  BY <1>1, <1>2, AbortTurns
<1>3. CASE Goto(c, "mgetRecords") /\ job' = [job EXCEPT ![c].found = seen]
  <2>1. job' = [job EXCEPT ![c] = j]
    BY <1>3
  <2>2. seen \in [Sids -> Hash] /\ \A s \in Sids : seen[s] # Nil => seen[s] = loc[s]
    BY <1>1 DEF TypeOK, Hash
  <2> HIDE DEF seen
  <2>3. j \in Job
    BY <1>1, <2>2 DEF Job
  <2>4. Fits("mgetRecords", j)
    BY <1>1, <2>2, <2>3 DEF Fits, Stage, Aim, Seen, Looks, Job, Located
  <2> QED
    BY <1>3, <2>1, <2>3, <2>4, NewJob DEF Labels
<1> QED
  BY <1>2, <1>3 DEF MGetLocators

Stale(j, s)   == j.found[s] = Nil \/ ~Exists(j.found[s])
Expired(j, s) == ~Stale(j, s) /\ rec[j.found[s]].dead
Leftovers(j)  == {s \in j.todo : Stale(j, s) \/ Expired(j, s)}
Lapsed(j)     == {s \in j.todo : Expired(j, s)}

LEMMA RecordsRead ==
  ASSUME NEW c \in Callers, MGetRecords(c)
  PROVE  /\ pc[c] = "mgetRecords" /\ UNCHANGED <<keys, clients>>
         /\ \/ /\ Goto(c, "heal") /\ UNCHANGED faults
               /\ job' = [job EXCEPT ![c] =
                    [job[c] EXCEPT !.todo = Leftovers(job[c]), !.dead = Lapsed(job[c])]]
            \/ Stumble /\ Abort(c)
  BY DEF MGetRecords, Leftovers, Lapsed, Stale, Expired

LEMMA RecordTurns ==
  ASSUME StoreInv, NEW c \in Callers, MGetRecords(c)
  PROVE  Turns(c)
<1>1. /\ TypeOK /\ Fits(pc[c], job[c]) /\ job[c] \in Job /\ pc[c] = "mgetRecords"
  BY JobTypes DEF StoreInv, JobsFit, MGetRecords
<1>2. CASE Abort(c)
  BY <1>1, <1>2, AbortTurns
<1>3. CASE /\ Goto(c, "heal")
           /\ job' = [job EXCEPT ![c] =
                    [job[c] EXCEPT !.todo = Leftovers(job[c]), !.dead = Lapsed(job[c])]]
  <2> DEFINE j == [job[c] EXCEPT !.todo = Leftovers(job[c]), !.dead = Lapsed(job[c])]
  <2>1. /\ Leftovers(job[c]) \subseteq job[c].todo /\ Lapsed(job[c]) \subseteq job[c].todo
        /\ \A s \in Lapsed(job[c]) : job[c].found[s] # Nil
    BY DEF Leftovers, Lapsed, Stale, Expired
  <2>2. j \in Job
    BY <1>1, <2>1 DEF Job
  <2>3. Fits("heal", j)
    BY <1>1, <2>1 DEF Fits, Stage, Aim, Seen, Looks, Job
  <2> QED
    BY <1>3, <2>2, <2>3, NewJob DEF Labels
<1> QED
  BY <1>2, <1>3, RecordsRead

LEMMA MemberTurns ==
  ASSUME StoreInv, NEW c \in Callers, NEW s \in Sids, HealMember(c, s)
  PROVE  Turns(c)
<1>1. /\ TypeOK /\ Fits(pc[c], job[c]) /\ job[c] \in Job /\ pc[c] = "heal"
  BY JobTypes DEF StoreInv, JobsFit, HealMember
<1> DEFINE h == IF s \in job[c].dead THEN job[c].found[s] ELSE Nil
           j == [job[c] EXCEPT !.todo = job[c].todo \ {s}, !.hash = h]
           l == IF s \in job[c].dead THEN "purge" ELSE "heal"
<1>2. Goto(c, l) /\ job' = [job EXCEPT ![c] = j]
  BY <1>1 DEF HealMember, Job
<1>3. h \in Hash /\ (s \in job[c].dead => h \in Tokens)
  BY <1>1 DEF Job, Hash, Fits, Seen
<1> HIDE DEF h
<1>4. j \in Job /\ l \in Labels
  BY <1>1, <1>3 DEF Job, Labels
<1>5. Fits(l, j)
  BY <1>1, <1>3 DEF Fits, Stage, Aim, Seen, Looks, Job
<1> QED
  BY <1>2, <1>4, <1>5, NewJob

-----------------------------------------------------------------------------
(* The invariant *)

LEMMA BeginTurns ==
  ASSUME StoreInv, NEW c \in Callers, NEW u \in Users, Begin(c, u)
  PROVE  Turns(c)
  BY RevokeBegins, WalkBegins, ListBegins DEF Begin, StoreInv

LEMMA StepTurns ==
  ASSUME StoreInv, NEW c \in Callers, Step(c)
  PROVE  Turns(c)
  BY LocateTurns, FetchTurns, HealTurns, RevokeTurns, PurgeTurns, FinishTurns, RangeTurns,
     LocatorTurns, RecordTurns, MemberTurns DEF Step

LEMMA StumbleTypes ==
  ASSUME TypeOK, mix' = mix, Stumble \/ UNCHANGED faults
  PROVE  faults' \in 0..mix'.maxFaults
<1>1. mix.maxFaults \in Nat
  BY SessionAssumption DEF TypeOK, Mix
<1> QED
  BY <1>1 DEF TypeOK, Stumble

\* A caller leaves the clients alone, counts its faults and does to the keys
\* what CallerKeys says.
LEMMA CallerFrame ==
  ASSUME StoreInv, NEW c \in Callers, Step(c) \/ \E u \in Users : Begin(c, u)
  PROVE  CallerKeys /\ UNCHANGED clients /\ (Stumble \/ UNCHANGED faults)
<1>1. TypeOK /\ Fits(pc[c], job[c])
  BY DEF StoreInv, JobsFit
<1>2. ASSUME NEW u \in Users, Begin(c, u)
      PROVE  CallerKeys /\ UNCHANGED clients /\ UNCHANGED faults
  BY ZenonT(120), <1>2 DEF Begin, StartRevoke, StartWalk, StartList, CallerKeys, Unindex, clients, keys
<1>3. ASSUME NEW s \in Sids, Locate(c, s) \/ HealMember(c, s)
      PROVE  CallerKeys /\ UNCHANGED clients /\ (Stumble \/ UNCHANGED faults)
  BY <1>3 DEF Locate, HealMember, CallerKeys, Unindex, clients, keys
<1>4. CASE Fetch(c) \/ Finish(c) \/ Range(c) \/ MGetLocators(c) \/ MGetRecords(c) \/ FinishList(c)
  BY <1>4, RecordsRead DEF Fetch, Finish, Range, MGetLocators, FinishList, CallerKeys
<1>5. CASE HealLocator(c)
  BY <1>1, <1>5 DEF HealLocator, CallerKeys, Unlocate, clients, keys, Fits, Aim, Looks
<1>6. CASE HealIndex(c) \/ HealWalk(c)
  BY <1>6 DEF HealIndex, HealWalk, CallerKeys, Unindex, clients, keys
<1>7. CASE Revoke(c)
  BY <1>1, <1>7 DEF Revoke, CallerKeys, Fits, Aim
<1>8. CASE Purge(c)
  BY <1>1, <1>8 DEF Purge, CallerKeys, Fits, Aim
<1> QED
  BY <1>2, <1>3, <1>4, <1>5, <1>6, <1>7, <1>8 DEF Step

\* What fits a job fits it after any step: records last.
LEMMA FitsLasts ==
  ASSUME KeysInv, Lasting, NEW l \in Labels, NEW j \in Job, Fits(l, j)
  PROVE  Fits(l, j)'
<1>1. \A t \in Tokens : rec[t].sid \in Sids =>
        rec'[t].sid = rec[t].sid /\ rec'[t].fresh = rec[t].fresh
  BY NilElsewhere DEF KeysInv, Minted, Lasting
<1>2. Aim(l, j)'
  BY <1>1 DEF Fits, Aim, Looks
<1>3. \A s \in Sids : Known(s) => Known(s)'
  BY KnownLasts
<1>4. j.found \in [Sids -> Hash] /\ j.todo \subseteq Sids
  BY DEF Job
<1>5. Seen(j)'
  BY <1>1, <1>3, <1>4 DEF Fits, Seen, Hash
<1> QED
  BY <1>2, <1>5 DEF Fits, Stage

LEMMA JobsStep ==
  ASSUME StoreInv, KeysInv, Lasting, NEW c \in Callers, Turns(c)
  PROVE  pc' \in [Callers -> Labels] /\ job' \in [Callers -> Job] /\ JobsFit'
<1>1. PICK l \in Labels, j \in Job : Turn(c, l, j) /\ Fits(l, j)
  BY DEF Turns
<1>2. pc' \in [Callers -> Labels] /\ job' \in [Callers -> Job]
  BY <1>1 DEF StoreInv, TypeOK, Turn
<1>3. /\ pc'[c] = l /\ job'[c] = j
      /\ \A d \in Callers : d # c => pc'[d] = pc[d] /\ job'[d] = job[d]
  BY <1>1 DEF StoreInv, TypeOK, Turn
<1>4. ASSUME NEW d \in Callers
      PROVE  Fits(pc[d], job[d])'
  <2> DEFINE m == IF d = c THEN l ELSE pc[d]
             k == IF d = c THEN j ELSE job[d]
  <2>1. m \in Labels /\ k \in Job /\ Fits(m, k) /\ pc'[d] = m /\ job'[d] = k
    BY <1>1, <1>3, JobTypes DEF StoreInv, JobsFit
  <2>2. PICK x \in Labels, y \in Job : Fits(x, y) /\ pc'[d] = x /\ job'[d] = y
    BY <2>1
  <2>3. Fits(x, y)'
    BY <2>2, FitsLasts
  <2> QED
    BY <2>2, <2>3 DEF Fits, Stage, Aim, Seen, Looks, Known
<1> QED
  BY <1>2, <1>4 DEF JobsFit

LEMMA ClientFrame ==
  ASSUME TypeOK, NEW t \in Tokens, ClientStep(t)
  PROVE  /\ UNCHANGED <<pc, job, faults>>
         /\ touching' \subseteq Tokens /\ rotating' \subseteq Tokens
  BY DEF TypeOK, ClientStep, Create, TouchRead, TouchWrite, RotateRead, RotateWrite, EndByToken,
         Idle, Evaporate, clients

LEMMA StoreInit == Init => StoreInv
<1> SUFFICES ASSUME Init PROVE StoreInv
  OBVIOUS
<1>0. \A t \in Tokens : rec[t] = [st |-> "unused", sid |-> Nil, dead |-> FALSE, fresh |-> FALSE]
  BY DEF Init
<1>1. TypeOK
  <2>1. NoJob \in Job
    BY DEF NoJob, Job, Hash
  <2>2. mix.maxFaults \in Nat
    BY SessionAssumption DEF Init, Mix
  <2> QED
    BY <2>1, <2>2 DEF Init, TypeOK, Record, Hash, Labels
<1>2. KeysInv
  BY <1>0 DEF Init, KeysInv, Minted, OneToken, Located, Indexed, Used, Exists
<1>3. Fits("idle", NoJob)
  BY DEF Fits, Stage, Aim, Seen, Looks, NoJob
<1>4. JobsFit
  BY <1>3 DEF Init, JobsFit
<1> QED
  BY <1>1, <1>2, <1>4 DEF StoreInv

LEMMA StoreStep ==
  ASSUME StoreInv, [Next]_vars
  PROVE  StoreInv' /\ Lasting
<1>1. TypeOK /\ KeysInv /\ JobsFit /\ KeysType
  BY DEF StoreInv, TypeOK, KeysType
<1>2. CASE UNCHANGED vars
  <2>1. KeysType' /\ KeysInv' /\ Lasting
    BY <1>1, <1>2, CallerKeysKept DEF CallerKeys, vars
  <2>2. TypeOK'
    BY <1>1, <1>2 DEF TypeOK, vars, keys, clients
  <2>3. JobsFit'
    BY <1>1, <1>2 DEF JobsFit, Fits, Stage, Aim, Seen, Looks, Known, vars, keys
  <2> QED
    BY <2>1, <2>2, <2>3 DEF StoreInv
<1>3. ASSUME Next, NEW t \in Tokens, ClientStep(t), mix' = mix
      PROVE  StoreInv' /\ Lasting
  <2>1. KeysType' /\ KeysInv' /\ Lasting
    BY <1>1, <1>3, ClientKeys
  <2>2. /\ UNCHANGED <<pc, job, faults>>
        /\ touching' \subseteq Tokens /\ rotating' \subseteq Tokens
    BY <1>1, <1>3, ClientFrame
  <2>3. TypeOK'
    BY <1>1, <1>3, <2>1, <2>2 DEF TypeOK, KeysType
  <2>4. ASSUME NEW c \in Callers PROVE Fits(pc[c], job[c])'
    <3>1. PICK l \in Labels, j \in Job : pc[c] = l /\ job[c] = j /\ Fits(l, j)
      BY <1>1, JobTypes DEF JobsFit
    <3>2. Fits(l, j)'
      BY <1>1, <2>1, <3>1, FitsLasts
    <3>3. pc'[c] = l /\ job'[c] = j
      BY <2>2, <3>1
    <3> QED
      BY <3>2, <3>3 DEF Fits, Stage, Aim, Seen, Looks, Known
  <2> QED
    BY <2>1, <2>3, <2>4 DEF StoreInv, JobsFit
<1>4. ASSUME NEW c \in Callers, Step(c) \/ \E u \in Users : Begin(c, u), mix' = mix
      PROVE  StoreInv' /\ Lasting
  <2>1. CallerKeys /\ UNCHANGED clients /\ (Stumble \/ UNCHANGED faults)
    BY <1>4, CallerFrame
  <2>2. KeysType' /\ KeysInv' /\ Lasting
    BY <1>1, <2>1, CallerKeysKept
  <2>3. Turns(c)
    BY <1>4, BeginTurns, StepTurns
  <2>4. pc' \in [Callers -> Labels] /\ job' \in [Callers -> Job] /\ JobsFit'
    BY <1>1, <2>2, <2>3, JobsStep
  <2>5. TypeOK'
    BY <1>1, <1>4, <2>1, <2>2, <2>4, StumbleTypes DEF TypeOK, KeysType, clients
  <2> QED
    BY <2>2, <2>4, <2>5 DEF StoreInv
<1> QED
  BY <1>1, <1>2, <1>3, <1>4, Steps

THEOREM StoreInvariant == Spec => []StoreInv
<1>1. StoreInv /\ [Next]_vars => StoreInv'
  BY StoreStep
<1> QED
  BY <1>1, StoreInit, PTL DEF Spec

\* Every command and script leaves the keys, the clients and the callers of the
\* inventory well-formed.
THEOREM TypeCorrect == Spec => []TypeOK
<1>1. StoreInv => TypeOK
  BY DEF StoreInv
<1> QED
  BY <1>1, StoreInvariant, PTL

\* A session has one record: no interleaving of creations, touches, rotations
\* and revocations leaves two live ones with its id (sessionRotateScript).
THEOREM TokenUnique == Spec => []OneToken
<1>1. StoreInv => OneToken
  BY DEF StoreInv, KeysInv
<1> QED
  BY <1>1, StoreInvariant, PTL

-----------------------------------------------------------------------------
(* What a step may never do *)

\* A live record is of a session that had one before, or of a new session.
Continues(t) == \/ \E x \in Tokens : Exists(x) /\ rec[x].sid = rec'[t].sid
                \/ ~Known(rec'[t].sid)

LEMMA DeleteContinues ==
  ASSUME KeysType, NEW t \in Tokens, NEW x \in Tokens, UNCHANGED rec \/ Delete(x),
         rec'[t].st = "live"
  PROVE  Continues(t)
  BY DEF KeysType, Record, Delete, Exists, Continues, keys

LEMMA ClientContinues ==
  ASSUME StoreInv, NEW x \in Tokens, ClientStep(x), NEW t \in Tokens, rec'[t].st = "live"
  PROVE  Continues(t)
<1>1. KeysType
  BY DEF StoreInv, TypeOK, KeysType
<1>2. CASE TouchRead(x) \/ RotateRead(x) \/ EndByToken(x)
  BY <1>1, <1>2, DeleteContinues DEF TouchRead, RotateRead, EndByToken, keys
<1>3. ASSUME NEW s \in Sids, Create(s, x) PROVE Continues(t)
  BY <1>1, <1>3 DEF Create, KeysType, Record, Exists, Continues
<1>4. CASE TouchWrite(x)
  BY <1>1, <1>4 DEF TouchWrite, Refreshable, KeysType, Record, Exists, Continues, keys
<1>5. ASSUME NEW new \in Tokens, RotateWrite(x, new) PROVE Continues(t)
  <2>1. CASE ~Rotatable(x)
    <3>1. UNCHANGED rec
      BY <1>5, <2>1 DEF RotateWrite, keys
    <3> QED BY <1>1, <3>1, DeleteContinues
  <2>2. CASE Rotatable(x)
    <3>1. /\ Exists(x) /\ rec[x] \in Record /\ rec \in [Tokens -> Record]
          /\ rec' = [rec EXCEPT ![x].st = "gone",
               ![new] = [st |-> "live", sid |-> rec[x].sid, dead |-> FALSE, fresh |-> TRUE]]
      BY <1>1, <1>5, <2>2 DEF RotateWrite, Rotatable, KeysType
    <3>2. CASE t = new
      BY <3>1, <3>2 DEF Continues
    <3>3. CASE t # new /\ t = x
      BY <3>1, <3>3 DEF Record
    <3>4. CASE t # new /\ t # x
      <4>1. rec'[t] = rec[t]
        BY <3>1, <3>4
      <4> QED BY <4>1 DEF Exists, Continues
    <3> QED BY <3>2, <3>3, <3>4
  <2> QED BY <2>1, <2>2
<1>6. CASE Idle(x) \/ Evaporate(x)
  BY <1>1, <1>6 DEF Idle, Evaporate, Usable, KeysType, Record, Exists, Continues
<1> QED
  BY <1>2, <1>3, <1>4, <1>5, <1>6 DEF ClientStep

LEMMA StepContinues ==
  ASSUME StoreInv, [Next]_vars, NEW t \in Tokens, rec'[t].st = "live"
  PROVE  Continues(t)
<1>1. KeysType /\ TypeOK
  BY DEF StoreInv, TypeOK, KeysType
<1>2. CASE UNCHANGED vars
  BY <1>1, <1>2, DeleteContinues DEF vars, keys
<1>3. ASSUME NEW c \in Callers, Step(c) \/ \E u \in Users : Begin(c, u)
      PROVE  Continues(t)
  <2>1. CallerKeys
    BY <1>3, CallerFrame
  <2> QED
    BY <1>1, <2>1, DeleteContinues DEF CallerKeys, keys, Unlocate, Unindex
<1> QED
  BY <1>1, <1>2, <1>3, ClientContinues, Steps

\* A session that has ended never comes back: a touch or a rotation that read
\* its record before a logout, a revocation or its expiry writes nothing after
\* (sessionTouchScript, sessionRotateScript).
THEOREM NoRevival == Spec => EndsOnce
<1>1. StoreInv /\ [Next]_vars =>
        [\A s \in Sids : Known(s) /\ (\A t \in Tokens : Exists(t) => rec[t].sid # s)
           => \A t \in Tokens : rec'[t].st = "live" => rec'[t].sid # s]_vars
  BY StepContinues DEF Continues
<1> QED
  BY <1>1, StoreInvariant, PTL DEF Spec, EndsOnce

\* A revocation deletes the record of a session of its own user, not the one it
\* keeps and, by a settlement, not one of the new generation: what resolve
\* checked is still true when the delete script runs (resolve,
\* RevokeAllOtherSessions, RevokeSessionsBeforeEpoch).
THEOREM InScope == Spec => RevocationStaysInScope
<1>1. ASSUME StoreInv, NEW c \in Callers, NEW t \in Tokens, Exists(t), rec'[t].st = "gone",
             Revoke(c)
      PROVE  /\ Owner[rec[t].sid] = job[c].user
             /\ rec[t].sid # job[c].keep
             /\ job[c].op = "epoch" => ~rec[t].fresh
  <2>1. KeysType /\ Fits(pc[c], job[c]) /\ pc[c] = "delete"
    BY <1>1 DEF StoreInv, TypeOK, KeysType, JobsFit, Revoke
  <2>2. Delete(job[c].hash)
    BY <1>1 DEF Revoke, Exists, keys
  <2>3. job[c].hash \in Tokens
    BY <2>1 DEF Fits, Aim
  <2>4. t = job[c].hash
    BY <1>1, <2>1, <2>2, <2>3 DEF Delete, Exists, KeysType, Record, keys
  <2> QED
    BY <2>1, <2>4 DEF Fits, Aim, Looks
<1>2. StoreInv /\ [Next]_vars =>
        [\A c \in Callers, t \in Tokens :
           Exists(t) /\ rec'[t].st = "gone" /\ Revoke(c) =>
             /\ Owner[rec[t].sid] = job[c].user
             /\ rec[t].sid # job[c].keep
             /\ job[c].op = "epoch" => ~rec[t].fresh]_vars
  BY <1>1
<1> QED
  BY <1>2, StoreInvariant, PTL DEF Spec, RevocationStaysInScope

-----------------------------------------------------------------------------
(* Steady mixes: keys *)

OverLasts == \A s \in Sids : Over(s) => Over(s)'

\* What callers do to the keys of an inventory that is steady: they take out
\* nothing that is live but by a deletion.
CalmCallerKeys == \/ UNCHANGED keys
                  \/ \E t \in Tokens : Delete(t)
                  \/ \E s \in Sids : Unlocate(s) /\ ~Live(s)
                  \/ Unindex /\ \A s \in idx \ idx' : ~Live(s)

LEMMA CalmDelete ==
  ASSUME StoreInv, CalmKeys, NEW t \in Tokens, Delete(t), UNCHANGED clients
  PROVE  CalmKeys' /\ OverLasts
<1>1. KeysType /\ Minted
  BY DEF StoreInv, TypeOK, KeysType, KeysInv
<1>2. CASE ~Exists(t)
  BY <1>2 DEF Delete, keys, clients, CalmKeys, Single, Complete, OverLasts, Over, Known, Live,
              Used, Usable, Exists
<1>3. CASE Exists(t)
  <2>1. /\ rec' = [rec EXCEPT ![t].st = "gone"]
        /\ loc' = [loc EXCEPT ![rec[t].sid] = Nil]
        /\ idx' = idx \ {rec[t].sid}
    BY <1>3 DEF Delete
  <2>2. /\ \A x \in Tokens : /\ rec'[x].sid = rec[x].sid /\ rec'[x].fresh = rec[x].fresh
                             /\ rec'[x].dead = rec[x].dead
                             /\ x # t => rec'[x].st = rec[x].st
        /\ rec'[t].st = "gone"
    BY <1>1, <2>1 DEF KeysType, Record
  <2>3. \A x \in Tokens : Used(x)' <=> Used(x)
    BY <1>3, <2>2 DEF Used, Exists
  <2>4. \A x \in Tokens : Exists(x)' <=> Exists(x) /\ x # t
    BY <2>2 DEF Exists
  <2>5. Single'
    BY <2>2, <2>3 DEF CalmKeys, Single
  <2>6. Complete'
    <3>1. SUFFICES ASSUME NEW x \in Tokens, Usable(x)'
                   PROVE  loc'[rec'[x].sid] = x /\ rec'[x].sid \in idx'
      BY DEF Complete
    <3>2. Usable(x) /\ x # t
      BY <2>2, <2>4, <3>1 DEF Usable
    <3>3. rec[x].sid # rec[t].sid
      BY <1>3, <3>2 DEF CalmKeys, Single, Usable, Exists, Used
    <3>4. rec[x].sid \in Sids
      BY <1>1, <3>2 DEF Minted, Used, Usable, Exists, KeysType, Record
    <3> QED
      BY <1>1, <2>1, <2>2, <3>2, <3>3, <3>4 DEF CalmKeys, Complete, KeysType
  <2>7. \A x \in touching' : Exists(x)' => ~rec'[x].dead
    BY <2>2, <2>4 DEF CalmKeys, clients, StoreInv, TypeOK
  <2>8. OverLasts
    BY <2>2, <2>4 DEF OverLasts, Over, Known, Live, Usable
  <2> QED
    BY <2>2, <2>5, <2>6, <2>7, <2>8 DEF CalmKeys, clients
<1> QED
  BY <1>2, <1>3

LEMMA CalmCaller ==
  ASSUME StoreInv, CalmKeys, CalmCallerKeys, UNCHANGED clients
  PROVE  CalmKeys' /\ OverLasts
<1>1. KeysType /\ Minted
  BY DEF StoreInv, TypeOK, KeysType, KeysInv
<1>2. ASSUME rec' = rec, Complete' PROVE CalmKeys' /\ OverLasts
  BY <1>2 DEF clients, CalmKeys, Single, OverLasts, Over, Known, Live, Used, Usable, Exists
<1>3. CASE UNCHANGED keys
  BY <1>2, <1>3 DEF keys, CalmKeys, Complete, Usable, Exists
<1>4. ASSUME NEW s \in Sids, Unlocate(s), ~Live(s) PROVE CalmKeys' /\ OverLasts
  BY <1>1, <1>2, <1>4 DEF Unlocate, CalmKeys, Complete, Usable, Exists, Live, KeysType, Record
<1>5. ASSUME Unindex, \A s \in idx \ idx' : ~Live(s) PROVE CalmKeys' /\ OverLasts
  BY <1>1, <1>2, <1>5 DEF Unindex, CalmKeys, Complete, Usable, Exists, Live, KeysType, Record
<1> QED
  BY <1>3, <1>4, <1>5, CalmDelete DEF CalmCallerKeys

LEMMA CalmCreate ==
  ASSUME StoreInv, CalmKeys, NEW s \in Sids, NEW t \in Tokens, Create(s, t)
  PROVE  CalmKeys' /\ OverLasts
<1>1. KeysType /\ Minted
  BY DEF StoreInv, TypeOK, KeysType, KeysInv
<1>2. /\ rec' = [rec EXCEPT ![t] = [st |-> "live", sid |-> s, dead |-> FALSE, fresh |-> FALSE]]
      /\ loc' = [loc EXCEPT ![s] = t] /\ idx' = idx \cup {s}
      /\ UNCHANGED clients /\ ~Used(t)
      /\ \A x \in Tokens : rec[x].sid # s
  BY DEF Create, Inventory, Used, Known
<1>3. /\ \A x \in Tokens : x # t => rec'[x] = rec[x]
      /\ rec'[t].sid = s /\ rec'[t].st = "live" /\ rec'[t].dead = FALSE /\ rec'[t].fresh = FALSE
  BY <1>1, <1>2 DEF KeysType, Record
<1>4. Single'
  BY <1>2, <1>3 DEF CalmKeys, Single, Used
<1>5. Complete'
  <2>1. \A x \in Tokens : x # t /\ Usable(x)' => Usable(x) /\ rec[x].sid \in Sids
    BY <1>1, <1>3 DEF Usable, Exists, Minted, Used, KeysType, Record
  <2> QED
    BY <1>1, <1>2, <1>3, <2>1 DEF CalmKeys, Complete, KeysType
<1>6. \A x \in touching' : Exists(x)' => ~rec'[x].dead
  BY <1>2, <1>3 DEF CalmKeys, clients, StoreInv, TypeOK, Exists
<1>7. OverLasts
  <2>1. SUFFICES ASSUME NEW r \in Sids, Over(r) PROVE Over(r)'
    BY DEF OverLasts
  <2>2. r # s
    BY <1>2, <2>1 DEF Over, Known
  <2>3. Known(r)'
    BY <1>2, <1>3, <2>1, <1>1, NilElsewhere DEF Over, Known, Minted
  <2> QED
    BY <1>3, <2>1, <2>2, <2>3 DEF Over, Live, Usable, Exists
<1> QED
  BY <1>2, <1>3, <1>4, <1>5, <1>6, <1>7 DEF CalmKeys, clients

LEMMA CalmTouch ==
  ASSUME StoreInv, CalmKeys, NEW t \in Tokens, TouchWrite(t)
  PROVE  CalmKeys' /\ OverLasts
<1>1. KeysType /\ Minted /\ touching' = touching \ {t} /\ rotating' = rotating
  BY DEF StoreInv, TypeOK, KeysType, KeysInv, TouchWrite
<1>2. CASE ~Exists(t)
  BY <1>1, <1>2 DEF TouchWrite, Refreshable, keys, CalmKeys, Single, Complete, OverLasts, Over,
                    Known, Live, Used, Usable, Exists
<1>3. CASE Exists(t)
  <2>1. /\ rec' = [rec EXCEPT ![t] = [@ EXCEPT !.st = "live", !.dead = FALSE]]
        /\ loc' = [loc EXCEPT ![rec[t].sid] = t] /\ idx' = idx \cup {rec[t].sid}
        /\ ~rec[t].dead
    BY <1>3 DEF TouchWrite, Refreshable, Reindex, Inventory, CalmKeys
  <2>2. rec' = rec
    BY <1>1, <1>3, <2>1 DEF KeysType, Record, Exists
  <2>3. loc[rec[t].sid] = t /\ rec[t].sid \in idx
    BY <1>3, <2>1 DEF CalmKeys, Complete, Usable
  <2>4. loc' = loc /\ idx' = idx
    BY <1>1, <2>1, <2>3 DEF KeysType
  <2> QED
    BY <1>1, <2>2, <2>4 DEF CalmKeys, Single, Complete, OverLasts, Over, Known, Live, Used,
                            Usable, Exists
<1> QED
  BY <1>2, <1>3

LEMMA CalmLapse ==
  ASSUME StoreInv, CalmKeys, NEW t \in Tokens, Exists(t),
         \A x \in Tokens : x # t => rec'[x] = rec[x],
         rec'[t].sid = rec[t].sid, rec'[t].fresh = rec[t].fresh, Used(t)',
         ~Usable(t)', Exists(t)' => t \notin touching,
         UNCHANGED <<idx, clients>>, \A s \in Sids : loc'[s] = loc[s] \/ s = rec[t].sid
  PROVE  CalmKeys' /\ OverLasts
<1>1. KeysType /\ Minted
  BY DEF StoreInv, TypeOK, KeysType, KeysInv
<1>2. Used(t) /\ \A x \in Tokens : /\ Used(x)' <=> Used(x)
                                   /\ rec'[x].sid = rec[x].sid /\ rec'[x].fresh = rec[x].fresh
  BY DEF Used, Exists
<1>3. Single'
  BY <1>2 DEF CalmKeys, Single
<1>4. Complete'
  <2>1. SUFFICES ASSUME NEW x \in Tokens, Usable(x)'
                 PROVE  loc'[rec'[x].sid] = x /\ rec'[x].sid \in idx'
    BY DEF Complete
  <2>2. x # t /\ Usable(x) /\ Used(x)
    BY <2>1 DEF Usable, Exists, Used
  <2>3. rec[x].sid # rec[t].sid
    BY <1>2, <2>2 DEF CalmKeys, Single
  <2>4. rec[x].sid \in Sids
    BY <1>1, <2>2 DEF Minted, KeysType, Record
  <2> QED
    BY <1>2, <2>2, <2>3, <2>4 DEF CalmKeys, Complete
<1>5. \A x \in touching' : Exists(x)' => ~rec'[x].dead
  BY DEF CalmKeys, clients, StoreInv, TypeOK, Exists
<1>6. OverLasts
  <2>1. \A x \in Tokens : Usable(x)' => Usable(x)
    BY DEF Usable, Exists
  <2> QED
    BY <1>2, <2>1 DEF OverLasts, Over, Known, Live
<1> QED
  BY <1>2, <1>3, <1>4, <1>5, <1>6 DEF CalmKeys, clients

LEMMA CalmClient ==
  ASSUME StoreInv, Steady, CalmKeys, NEW t \in Tokens, ClientStep(t)
  PROVE  CalmKeys' /\ OverLasts
<1>1. KeysType /\ TypeOK
  BY DEF StoreInv, TypeOK, KeysType
<1>2. ASSUME NEW s \in Sids, Create(s, t) PROVE CalmKeys' /\ OverLasts
  BY <1>2, CalmCreate
<1>3. CASE TouchRead(t)
  BY <1>3 DEF TouchRead, Usable, Exists, keys, CalmKeys, Single, Complete, OverLasts, Over, Known,
              Live, Used
<1>4. CASE TouchWrite(t)
  BY <1>4, CalmTouch
<1>5. ~RotateRead(t) /\ \A new \in Tokens : ~RotateWrite(t, new)
  BY DEF RotateRead, RotateWrite, Steady, CalmKeys
<1>6. CASE EndByToken(t)
  BY <1>6, CalmDelete DEF EndByToken
<1>7. CASE Idle(t)
  <2>1. /\ Exists(t) /\ t \notin touching /\ UNCHANGED <<loc, idx, clients>>
        /\ rec' = [rec EXCEPT ![t].dead = TRUE]
    BY <1>7 DEF Idle, Usable, Steady
  <2>2. /\ \A x \in Tokens : x # t => rec'[x] = rec[x]
        /\ rec'[t].sid = rec[t].sid /\ rec'[t].fresh = rec[t].fresh
        /\ rec'[t].st = rec[t].st /\ rec'[t].dead = TRUE
    BY <1>1, <2>1 DEF KeysType, Record
  <2>3. Used(t)' /\ ~Usable(t)'
    BY <2>1, <2>2 DEF Used, Usable, Exists
  <2>4. UNCHANGED <<idx, clients>> /\ \A s \in Sids : loc'[s] = loc[s]
    BY <2>1
  <2> QED
    BY <2>1, <2>2, <2>3, <2>4, CalmLapse
<1>8. CASE Evaporate(t)
  <2>1. /\ Exists(t) /\ UNCHANGED <<idx, clients>>
        /\ rec' = [rec EXCEPT ![t].st = "gone"]
        /\ loc' = [loc EXCEPT ![rec[t].sid] = Nil] \/ loc' = loc
    BY <1>8 DEF Evaporate
  <2>2. /\ \A x \in Tokens : x # t => rec'[x] = rec[x]
        /\ rec'[t].sid = rec[t].sid /\ rec'[t].fresh = rec[t].fresh
        /\ rec'[t].st = "gone"
    BY <1>1, <2>1 DEF KeysType, Record
  <2>3. Used(t)' /\ ~Usable(t)' /\ ~Exists(t)'
    BY <2>2 DEF Used, Usable, Exists
  <2>4. \A s \in Sids : loc'[s] = loc[s] \/ s = rec[t].sid
    BY <1>1, <2>1 DEF KeysType
  <2> QED
    BY <2>1, <2>2, <2>3, <2>4, CalmLapse
<1> QED
  BY <1>2, <1>3, <1>4, <1>5, <1>6, <1>7, <1>8 DEF ClientStep

-----------------------------------------------------------------------------
(* Steady mixes: jobs *)

\* A step of c leaves it with a job that is sound.
SoundTurn(c) == \E l \in Labels, j \in Job : Turn(c, l, j) /\ Sound(l, j)'

LEMMA SoundLasts ==
  ASSUME OverLasts, NEW l \in Labels, NEW j \in Job, Sound(l, j)
  PROVE  Sound(l, j)'
<1>1. \A s : Over(s) => Over(s)'
  BY DEF OverLasts, Over
<1> QED
  BY <1>1 DEF Sound

LEMMA SoundNew ==
  ASSUME OverLasts, NEW c \in Callers, NEW l \in Labels, NEW j \in Job, Goto(c, l),
         job' = [job EXCEPT ![c] = j], Sound(l, j)
  PROVE  SoundTurn(c)
  BY SoundLasts DEF SoundTurn, Turn, Goto

LEMMA SoundSame ==
  ASSUME TypeOK, OverLasts, NEW c \in Callers, NEW l \in Labels, Goto(c, l), UNCHANGED job,
         Sound(l, job[c])
  PROVE  SoundTurn(c)
<1>1. job' = [job EXCEPT ![c] = job[c]]
  BY DEF TypeOK
<1> QED
  BY <1>1, SoundNew, JobTypes

LEMMA SoundEnd ==
  ASSUME TypeOK, OverLasts, NEW c \in Callers, Sound(pc[c], job[c]),
         NEW answer \in {"ok", "notFound", "error"}, End(c, answer),
         answer = "ok" => \A s \in job[c].aims : Over(s)
  PROVE  SoundTurn(c)
<1> DEFINE j == Ended(job[c], answer)
<1>1. Goto(c, "idle") /\ job' = [job EXCEPT ![c] = j]
  BY DEF End, Ended
<1>2. j \in Job
  BY EndedJob, JobTypes
<1>3. /\ j.victims = job[c].victims /\ j.aims = job[c].aims /\ j.op = job[c].op
      /\ j.user = job[c].user /\ j.reply = answer
  BY DEF Ended, NoJob
<1>4. Sound("idle", j)
  BY <1>3 DEF Sound
<1> QED
  BY <1>1, <1>2, <1>4, SoundNew DEF Labels

LEMMA SoundAbort ==
  ASSUME TypeOK, OverLasts, NEW c \in Callers, Sound(pc[c], job[c]), Abort(c)
  PROVE  SoundTurn(c)
  BY SoundEnd DEF Abort

LEMMA SoundAdvance ==
  ASSUME TypeOK, OverLasts, NEW c \in Callers, Sound(pc[c], job[c]), pc[c] # "idle",
         Over(job[c].sid) \/ job[c].sid \notin job[c].aims, Advance(c),
         Dropped(job[c]) \in Job
  PROVE  SoundTurn(c)
<1> DEFINE j == Dropped(job[c])
<1>1. Goto(c, "next") /\ job' = [job EXCEPT ![c] = j]
  BY DEF Advance
<1>2. /\ j.victims = job[c].victims /\ j.aims = job[c].aims /\ j.op = job[c].op
      /\ j.user = job[c].user /\ j.todo = job[c].todo \ {job[c].sid}
  BY JobTypes DEF Dropped, Job
<1>3. Sound("next", j)
  BY <1>2 DEF Sound
<1> QED
  BY <1>1, <1>3, SoundNew DEF Labels

LEMMA SoundMiss ==
  ASSUME TypeOK, OverLasts, NEW c \in Callers, Sound(pc[c], job[c]), pc[c] # "idle",
         Over(job[c].sid) \/ Owner[job[c].sid] # job[c].user, Miss(c)
  PROVE  SoundTurn(c)
<1>1. CASE Walks(c)
  <2>1. Sound("zremWalk", job[c])
    BY DEF Sound
  <2> QED
    BY <1>1, <2>1, SoundSame DEF Miss, Labels
<1> QED
  BY <1>1, SoundEnd DEF Miss

\* What one reads in a steady inventory: a record that is not usable was the
\* session's last, and without a locator a session has no usable record.
LEMMA LastRecord ==
  ASSUME StoreInv, CalmKeys, NEW t \in Tokens, rec[t].sid \in Sids, ~Usable(t)
  PROVE  Over(rec[t].sid)
<1>1. Used(t)
  BY NilElsewhere DEF StoreInv, KeysInv, Minted
<1>2. \A x \in Tokens : Usable(x) => Used(x)
  BY DEF Usable, Exists, Used
<1> QED
  BY <1>1, <1>2 DEF CalmKeys, Single, Over, Known, Live

LEMMA NoLocator ==
  ASSUME StoreInv, CalmKeys, NEW s \in Sids, Known(s), loc[s] = Nil
  PROVE  Over(s)
  BY NilElsewhere DEF CalmKeys, Complete, Over, Live

LEMMA SoundBegin ==
  ASSUME StoreInv, CalmKeys, OverLasts, NEW c \in Callers, NEW u \in Users, Begin(c, u)
  PROVE  SoundTurn(c)
<1>1. TypeOK
  BY DEF StoreInv
<1>2. ASSUME NEW s \in Sids, StartRevoke(c, s, u) PROVE SoundTurn(c)
  <2> DEFINE j == [NoJob EXCEPT !.op = "revoke", !.user = u, !.first = TRUE,
                                !.todo = {s}, !.aims = {s}]
  <2>1. j \in Job
    BY DEF NoJob, Job, Hash, AllOps
  <2>2. Sound("next", j)
    BY DEF Sound, NoJob
  <2>3. Goto(c, "next") /\ job' = [job EXCEPT ![c] = j]
    BY <1>2 DEF StartRevoke
  <2> QED
    BY <2>1, <2>2, <2>3, SoundNew DEF Labels
<1>3. ASSUME NEW op \in {"others", "epoch"}, NEW keep \in Sids \cup {Nil}, StartWalk(c, op, u, keep)
      PROVE  SoundTurn(c)
  <2> DEFINE todo == Targets(Members(u), keep)
             aims == {s \in Sids : Owner[s] = u /\ Live(s) /\ s # keep}
             j    == [NoJob EXCEPT !.op = op, !.user = u, !.keep = keep, !.todo = todo,
                                   !.aims = aims]
  <2>1. todo \subseteq Sids /\ aims \subseteq Sids /\ \A s \in aims : Owner[s] = u
    BY <1>1 DEF Targets, Members, TypeOK
  <2>2. aims \subseteq todo
    BY DEF CalmKeys, Complete, Live, Targets, Members
  <2>3. Goto(c, "next") /\ job' = [job EXCEPT ![c] = j]
    BY <1>3 DEF StartWalk
  <2> HIDE DEF todo, aims
  <2>4. j \in Job
    BY <2>1 DEF NoJob, Job, Hash, AllOps
  <2>5. Sound("next", j)
    BY <2>1, <2>2 DEF Sound, NoJob
  <2> QED
    BY <2>3, <2>4, <2>5, SoundNew DEF Labels
<1>4. CASE StartList(c, u)
  <2> DEFINE j == [NoJob EXCEPT !.op = "list", !.user = u]
  <2>1. j \in Job
    BY DEF NoJob, Job, Hash, AllOps
  <2>2. Sound("range", j)
    BY DEF Sound, NoJob
  <2>3. Goto(c, "range") /\ job' = [job EXCEPT ![c] = j]
    BY <1>4 DEF StartList
  <2> QED
    BY <2>1, <2>2, <2>3, SoundNew DEF Labels
<1> QED
  BY <1>2, <1>3, <1>4 DEF Begin

LEMMA SoundLocate ==
  ASSUME StoreInv, CalmKeys, OverLasts, NEW c \in Callers, Sound(pc[c], job[c]),
         NEW s \in Sids, Locate(c, s)
  PROVE  SoundTurn(c)
<1>1. TypeOK /\ Fits(pc[c], job[c]) /\ job[c] \in Job
  BY JobTypes DEF StoreInv, JobsFit
<1>2. pc[c] = "next" /\ s \in job[c].todo
  BY DEF Locate
<1> DEFINE j == [job[c] EXCEPT !.sid = s, !.hash = loc[s]]
<1>3. /\ j \in Job /\ j.sid = s /\ j.op = job[c].op /\ j.user = job[c].user
      /\ j.victims = job[c].victims /\ j.aims = job[c].aims /\ j.todo = job[c].todo
  BY <1>1 DEF TypeOK, Job
<1> HIDE DEF j
<1>4. CASE job' = [job EXCEPT ![c] = j] /\ Goto(c, "fetch")
  <2>1. Sound("fetch", j)
    BY <1>2, <1>3 DEF Sound
  <2> QED
    BY <1>3, <1>4, <2>1, SoundNew DEF Labels
<1>5. CASE loc[s] = Nil /\ Walks(c) /\ job' = [job EXCEPT ![c] = j] /\ Goto(c, "zremWalk")
  <2>1. Over(s)
    BY <1>1, <1>2, <1>5, NoLocator DEF Fits, Seen, Walks
  <2>2. Sound("zremWalk", j)
    BY <1>2, <1>3, <2>1 DEF Sound
  <2> QED
    BY <1>3, <1>5, <2>2, SoundNew DEF Labels
<1>6. CASE End(c, "notFound") \/ Abort(c)
  BY <1>1, <1>6, SoundEnd, SoundAbort
<1> QED
  BY <1>4, <1>5, <1>6 DEF Locate, j

LEMMA SoundFetch ==
  ASSUME StoreInv, CalmKeys, OverLasts, NEW c \in Callers, Sound(pc[c], job[c]), Fetch(c)
  PROVE  SoundTurn(c)
<1>1. /\ TypeOK /\ Fits(pc[c], job[c]) /\ job[c] \in Job /\ pc[c] = "fetch"
      /\ job[c].hash \in Tokens /\ job[c].sid \in Sids /\ rec[job[c].hash].sid = job[c].sid
  BY JobTypes DEF StoreInv, JobsFit, Fetch, Fits, Aim, Looks
<1>2. ~Usable(job[c].hash) => Over(job[c].sid)
  BY <1>1, LastRecord
<1>3. CASE rec[job[c].hash].st # "live" /\ Goto(c, "delLocator") /\ UNCHANGED job
  <2>1. Sound("delLocator", job[c])
    BY <1>1, <1>2, <1>3 DEF Sound, Usable, Exists
  <2> QED
    BY <1>1, <1>3, <2>1, SoundSame DEF Labels
<1>4. CASE Foreign(job[c].sid, job[c].user, rec[job[c].hash]) /\ Miss(c)
  BY <1>1, <1>4, SoundMiss DEF Foreign
<1>5. CASE rec[job[c].hash].dead /\ Goto(c, "purge") /\ UNCHANGED job
  <2>1. job[c].op # "list"
    BY <1>1 DEF Fits, Stage
  <2>2. Sound("purge", job[c])
    BY <1>1, <1>2, <1>5, <2>1 DEF Sound, Usable
  <2> QED
    BY <1>1, <1>5, <2>2, SoundSame DEF Labels
<1>6. CASE Goto(c, "next") /\ job' = [job EXCEPT ![c] =
             [@ EXCEPT !.first = FALSE, !.sid = Nil, !.hash = Nil]]
  <2> DEFINE j == [job[c] EXCEPT !.first = FALSE, !.sid = Nil, !.hash = Nil]
  <2>1. j \in Job /\ job' = [job EXCEPT ![c] = j]
    BY <1>1, <1>6 DEF Job, Hash
  <2>2. Sound("next", j)
    BY <1>1 DEF Sound, Job
  <2> QED
    BY <1>6, <2>1, <2>2, SoundNew DEF Labels
<1>7. CASE Goto(c, "delete") /\ UNCHANGED job
  <2>1. Sound("delete", job[c])
    BY <1>1 DEF Sound
  <2> QED
    BY <1>1, <1>7, <2>1, SoundSame DEF Labels
<1>8. CASE Abort(c)
  BY <1>1, <1>8, SoundAbort
<1>9. ~rec[job[c].hash].fresh
  BY <1>1 DEF CalmKeys
<1> QED
  BY <1>3, <1>4, <1>5, <1>6, <1>7, <1>8, <1>9 DEF Fetch

LEMMA SoundHeal ==
  ASSUME StoreInv, CalmKeys, OverLasts, NEW c \in Callers, Sound(pc[c], job[c]),
         HealLocator(c) \/ HealIndex(c) \/ HealWalk(c)
  PROVE  SoundTurn(c)
<1>1. TypeOK /\ Fits(pc[c], job[c]) /\ job[c] \in Job
  BY JobTypes DEF StoreInv, JobsFit
<1>2. CASE HealLocator(c)
  <2>1. pc[c] = "delLocator" /\ Goto(c, "zremHeal") /\ UNCHANGED job
    BY <1>2 DEF HealLocator
  <2>2. Sound("zremHeal", job[c])
    BY <2>1 DEF Sound
  <2> QED
    BY <1>1, <2>1, <2>2, SoundSame DEF Labels
<1>3. CASE HealIndex(c)
  <2>1. pc[c] = "zremHeal" /\ Miss(c) /\ Over(job[c].sid)
    BY <1>3 DEF HealIndex, Sound
  <2> QED
    BY <1>1, <2>1, SoundMiss
<1>4. CASE HealWalk(c)
  <2>1. pc[c] = "zremWalk" /\ Advance(c)
    BY <1>4 DEF HealWalk
  <2>2. job[c].op \in {"others", "epoch"}
    BY <1>1, <2>1 DEF Fits, Stage
  <2>3. Over(job[c].sid) \/ job[c].sid \notin job[c].aims
    BY <2>1, <2>2 DEF Sound
  <2>4. Dropped(job[c]) \in Job
    BY <1>1, <2>1, <2>2, DroppedJob DEF Labels
  <2> QED
    BY <1>1, <2>1, <2>3, <2>4, SoundAdvance
<1> QED
  BY <1>2, <1>3, <1>4

LEMMA Deleted ==
  ASSUME KeysType, NEW t \in Tokens, Delete(t)
  PROVE  ~Exists(t)' /\ rec'[t].sid = rec[t].sid
<1>1. CASE Exists(t)
  BY <1>1 DEF Delete, Exists, KeysType, Record
<1>2. CASE ~Exists(t)
  <2>1. rec' = rec
    BY <1>2 DEF Delete, keys
  <2> QED
    BY <1>2, <2>1 DEF Exists
<1> QED
  BY <1>1, <1>2

LEMMA DeletedOver ==
  ASSUME StoreInv', CalmKeys', NEW t \in Tokens, NEW s \in Sids, rec'[t].sid = s, ~Exists(t)'
  PROVE  Over(s)'
<1>1. \A x \in Tokens : rec'[x].sid = s => Used(x)'
  BY NilElsewhere DEF StoreInv, KeysInv, Minted
<1>2. \A x \in Tokens : rec'[x].sid = s => x = t
  BY <1>1 DEF CalmKeys, Single
<1> QED
  BY <1>2 DEF Over, Known, Live, Usable

LEMMA SoundReported ==
  ASSUME NEW j \in Job, j.op # "list", Fits("delete", j), Sound("delete", j), OverLasts,
         Over(j.sid)'
  PROVE  Reported(j) \in Job /\ Sound("next", Reported(j))'
<1>1. Dropped(j) \in Job
  BY DroppedJob DEF Labels
<1>2. Reported(j) \in Job
  BY <1>1 DEF Reported, Job, Fits, Aim, Looks
<1>3. /\ Reported(j).victims = j.victims \cup {j.sid} /\ Reported(j).aims = j.aims
      /\ Reported(j).op = j.op /\ Reported(j).user = j.user
      /\ Reported(j).todo = j.todo \ {j.sid}
  BY DEF Reported, Dropped, Job
<1>4. \A s : Over(s) => Over(s)'
  BY DEF OverLasts, Over
<1> QED
  BY <1>2, <1>3, <1>4 DEF Sound

LEMMA SoundRevoke ==
  ASSUME StoreInv, StoreInv', CalmKeys', OverLasts, NEW c \in Callers,
         Sound(pc[c], job[c]), Revoke(c)
  PROVE  SoundTurn(c)
<1>1. TypeOK /\ KeysType /\ pc[c] = "delete" /\ Fits("delete", job[c])
  BY DEF StoreInv, TypeOK, KeysType, JobsFit, Revoke
<1>2. CASE Abort(c)
  BY <1>1, <1>2, SoundAbort
<1>3. CASE /\ Delete(job[c].hash) /\ Goto(c, "next")
           /\ job' = [job EXCEPT ![c] = Reported(job[c])]
  <2>1. PICK j \in Job : j = job[c]
    BY <1>1, JobTypes
  <2>2. /\ Fits("delete", j) /\ Sound("delete", j) /\ Delete(j.hash)
        /\ job' = [job EXCEPT ![c] = Reported(j)]
    BY <1>1, <1>3, <2>1
  <2>3. j.op # "list" /\ j.sid \in Sids /\ j.hash \in Tokens /\ rec[j.hash].sid = j.sid
    BY <2>2 DEF Fits, Stage, Aim, Looks
  <2>4. Over(j.sid)'
    BY <1>1, <2>2, <2>3, Deleted, DeletedOver
  <2>5. Reported(j) \in Job /\ Sound("next", Reported(j))'
    BY <2>2, <2>3, <2>4, SoundReported
  <2> QED
    BY <1>3, <2>2, <2>5 DEF SoundTurn, Turn, Goto, Labels
<1> QED
  BY <1>2, <1>3 DEF Revoke

LEMMA SoundPurge ==
  ASSUME StoreInv, CalmKeys, OverLasts, NEW c \in Callers, Sound(pc[c], job[c]), Purge(c)
  PROVE  SoundTurn(c)
<1>1. TypeOK /\ Fits("purge", job[c]) /\ job[c] \in Job /\ pc[c] = "purge"
  BY JobTypes DEF StoreInv, JobsFit, Purge
<1>2. CASE job[c].op = "revoke"
  BY <1>1, <1>2, SoundEnd DEF Purge
<1>3. CASE job[c].op = "list"
  <2> DEFINE j == [job[c] EXCEPT !.hash = Nil]
  <2>1. Goto(c, "heal") /\ job' = [job EXCEPT ![c] = j]
    BY <1>1, <1>3 DEF Purge, TypeOK
  <2>2. j \in Job
    BY <1>1 DEF Job, Hash
  <2>3. Sound("heal", j)
    BY <1>1, <1>3 DEF Sound, Job
  <2> QED
    BY <2>1, <2>2, <2>3, SoundNew DEF Labels
<1>4. CASE job[c].op \notin {"revoke", "list"}
  <2>1. Over(job[c].sid) /\ Advance(c)
    BY <1>1, <1>4 DEF Purge, Sound
  <2>2. Dropped(job[c]) \in Job
    BY <1>1, <1>4, DroppedJob DEF Labels
  <2> QED
    BY <1>1, <2>1, <2>2, SoundAdvance
<1> QED
  BY <1>2, <1>3, <1>4

LEMMA SoundFinish ==
  ASSUME StoreInv, OverLasts, NEW c \in Callers, Sound(pc[c], job[c]),
         Finish(c) \/ FinishList(c)
  PROVE  SoundTurn(c)
<1>1. TypeOK /\ job[c].todo = {} /\ pc[c] # "idle" /\ End(c, "ok")
  BY DEF StoreInv, Finish, FinishList
<1>2. \A s \in job[c].aims : Over(s)
  BY <1>1 DEF Sound
<1> QED
  BY <1>1, <1>2, SoundEnd

LEMMA SoundList ==
  ASSUME StoreInv, CalmKeys, OverLasts, NEW c \in Callers, Sound(pc[c], job[c]),
         Range(c) \/ MGetLocators(c) \/ MGetRecords(c)
  PROVE  SoundTurn(c)
<1>1. /\ TypeOK /\ Fits(pc[c], job[c]) /\ job[c] \in Job /\ Indexed
      /\ job[c].op = "list" /\ job[c].aims = {} /\ pc[c] # "idle"
  BY JobTypes, RecordsRead DEF StoreInv, JobsFit, KeysInv, Range, MGetLocators, Fits, Stage, Sound
<1>2. CASE Abort(c)
  BY <1>1, <1>2, SoundAbort
<1>3. CASE Goto(c, "mgetLocators") /\ job' = [job EXCEPT ![c].todo = Members(job[c].user)]
  <2> DEFINE j == [job[c] EXCEPT !.todo = Members(job[c].user)]
  <2>1. job' = [job EXCEPT ![c] = j]
    BY <1>3
  <2>2. j \in Job
    BY <1>1 DEF Job, Members, TypeOK
  <2>3. Sound("mgetLocators", j)
    BY <1>1 DEF Sound, Job
  <2> QED
    BY <1>3, <2>1, <2>2, <2>3, SoundNew DEF Labels
<1> DEFINE seen == [s \in Sids |-> IF s \in job[c].todo THEN loc[s] ELSE Nil]
<1>4. CASE Goto(c, "mgetRecords") /\ job' = [job EXCEPT ![c].found = seen]
  <2> DEFINE j == [job[c] EXCEPT !.found = seen]
  <2>1. job' = [job EXCEPT ![c] = j]
    BY <1>4
  <2>2. /\ seen \in [Sids -> Hash] /\ job[c].todo \subseteq Sids
        /\ \A s \in job[c].todo : seen[s] = loc[s]
    BY <1>1 DEF TypeOK, Hash, Job
  <2> HIDE DEF seen
  <2>3. j \in Job
    BY <1>1, <2>2 DEF Job
  <2>4. \A s \in job[c].todo : seen[s] = Nil => Over(s)
    BY <1>1, <2>2, NoLocator DEF Fits, Seen
  <2>5. Sound("mgetRecords", j)
    BY <1>1, <2>4 DEF Sound, Job
  <2> QED
    BY <1>4, <2>1, <2>3, <2>5, SoundNew DEF Labels
<1>5. CASE /\ pc[c] = "mgetRecords" /\ Goto(c, "heal")
           /\ job' = [job EXCEPT ![c] =
                    [job[c] EXCEPT !.todo = Leftovers(job[c]), !.dead = Lapsed(job[c])]]
  <2> DEFINE j == [job[c] EXCEPT !.todo = Leftovers(job[c]), !.dead = Lapsed(job[c])]
  <2>1. /\ Leftovers(job[c]) \subseteq job[c].todo /\ Lapsed(job[c]) \subseteq job[c].todo
        /\ job[c].todo \subseteq Sids /\ job[c].found \in [Sids -> Hash]
    BY <1>1 DEF Leftovers, Lapsed, Job
  <2>2. ASSUME NEW s \in Leftovers(job[c]) PROVE Over(s)
    <3>1. CASE job[c].found[s] = Nil
      BY <1>5, <2>1, <3>1 DEF Sound
    <3>2. CASE job[c].found[s] # Nil
      <4>1. job[c].found[s] \in Tokens /\ rec[job[c].found[s]].sid = s /\ s \in Sids
        BY <1>1, <2>1, <3>2 DEF Fits, Seen, Hash
      <4>2. ~Usable(job[c].found[s])
        BY <3>2 DEF Leftovers, Stale, Expired, Usable
      <4> QED
        BY <4>1, <4>2, LastRecord
    <3> QED
      BY <3>1, <3>2
  <2>3. j \in Job
    BY <1>1, <2>1 DEF Job
  <2>4. Sound("heal", j)
    BY <1>1, <2>2 DEF Sound, Job
  <2> QED
    BY <1>5, <2>3, <2>4, SoundNew DEF Labels
<1> QED
  BY ZenonT(120), <1>2, <1>3, <1>4, <1>5, RecordsRead DEF Range, MGetLocators

LEMMA SoundMember ==
  ASSUME StoreInv, CalmKeys, OverLasts, NEW c \in Callers, Sound(pc[c], job[c]),
         NEW s \in Sids, HealMember(c, s)
  PROVE  SoundTurn(c)
<1>1. /\ TypeOK /\ Fits("heal", job[c]) /\ Sound("heal", job[c]) /\ job[c] \in Job
  BY JobTypes DEF StoreInv, JobsFit, HealMember
<1> DEFINE h == IF s \in job[c].dead THEN job[c].found[s] ELSE Nil
           j == [job[c] EXCEPT !.todo = job[c].todo \ {s}, !.hash = h]
           l == IF s \in job[c].dead THEN "purge" ELSE "heal"
<1>2. Goto(c, l) /\ job' = [job EXCEPT ![c] = j]
  BY <1>1 DEF HealMember, Job
<1>3. h \in Hash
  BY <1>1 DEF Job, Hash
<1> HIDE DEF h
<1>4. j \in Job /\ l \in Labels
  BY <1>1, <1>3 DEF Job, Labels
<1>5. job[c].op = "list"
  BY <1>1 DEF Fits, Stage
<1>6. Sound(l, j)
  BY <1>1, <1>5 DEF Sound, Job
<1> QED
  BY <1>2, <1>4, <1>6, SoundNew

-----------------------------------------------------------------------------
(* Steady mixes: the invariant *)

LEMMA CalmCallerFrame ==
  ASSUME StoreInv, CalmKeys, NEW c \in Callers, Sound(pc[c], job[c]),
         Step(c) \/ \E u \in Users : Begin(c, u)
  PROVE  CalmCallerKeys
<1>1. TypeOK /\ Fits(pc[c], job[c])
  BY DEF StoreInv, JobsFit
<1>2. ASSUME NEW u \in Users, Begin(c, u) PROVE CalmCallerKeys
  BY ZenonT(120), <1>2 DEF Begin, StartRevoke, StartWalk, StartList, CalmCallerKeys, Unindex, Prunable, keys
<1>3. ASSUME NEW s \in Sids, Locate(c, s) \/ HealMember(c, s) PROVE CalmCallerKeys
  <2>1. CASE Locate(c, s)
    BY <2>1 DEF Locate, CalmCallerKeys
  <2>2. CASE HealMember(c, s)
    <3>1. ~Live(s)
      BY <2>2 DEF HealMember, Sound, Over
    <3> QED
      BY <2>2, <3>1 DEF HealMember, CalmCallerKeys, Unindex
  <2> QED
    BY <1>3, <2>1, <2>2
<1>4. CASE Fetch(c) \/ Finish(c) \/ Range(c) \/ MGetLocators(c) \/ MGetRecords(c) \/ FinishList(c)
  BY <1>4, RecordsRead DEF Fetch, Finish, Range, MGetLocators, FinishList, CalmCallerKeys
<1>5. CASE HealLocator(c)
  <2>1. Over(job[c].sid)
    BY <1>5 DEF HealLocator, Sound
  <2> QED
    BY <1>5, <2>1 DEF HealLocator, CalmCallerKeys, Unlocate, keys, Over
<1>6. CASE HealIndex(c)
  <2>1. Over(job[c].sid)
    BY <1>6 DEF HealIndex, Sound
  <2> QED
    BY <1>6, <2>1 DEF HealIndex, CalmCallerKeys, Unindex, Over
<1>7. CASE HealWalk(c)
  <2>1. Over(job[c].sid) \/ Owner[job[c].sid] # job[c].user
    BY <1>7 DEF HealWalk, Sound
  <2> QED
    BY <1>7, <2>1 DEF HealWalk, CalmCallerKeys, Unindex, Over, Members
<1>8. CASE Revoke(c) \/ Purge(c)
  BY <1>1, <1>8 DEF Revoke, Purge, CalmCallerKeys, Fits, Aim
<1> QED
  BY <1>2, <1>3, <1>4, <1>5, <1>6, <1>7, <1>8 DEF Step

LEMMA SoundStep ==
  ASSUME StoreInv, StoreInv', CalmKeys, CalmKeys', OverLasts, NEW c \in Callers,
         Sound(pc[c], job[c]), Step(c)
  PROVE  SoundTurn(c)
  BY SoundLocate, SoundFetch, SoundHeal, SoundRevoke, SoundPurge, SoundFinish, SoundList,
     SoundMember DEF Step

LEMMA SoundJobs ==
  ASSUME StoreInv, JobsSound, OverLasts,
         \/ UNCHANGED <<pc, job>>
         \/ \E c \in Callers : SoundTurn(c)
  PROVE  JobsSound'
<1>1. ASSUME NEW d \in Callers, NEW l \in Labels, NEW j \in Job, pc'[d] = l, job'[d] = j,
             Sound(l, j)'
      PROVE  Sound(pc[d], job[d])'
  BY <1>1 DEF Sound, Over, Known, Live
<1>2. ASSUME NEW d \in Callers, pc'[d] = pc[d], job'[d] = job[d]
      PROVE  Sound(pc[d], job[d])'
  <2>1. PICK l \in Labels, j \in Job : pc[d] = l /\ job[d] = j /\ Sound(l, j)
    BY JobTypes DEF JobsSound, StoreInv
  <2> QED
    BY <1>1, <1>2, <2>1, SoundLasts
<1>3. ASSUME NEW c \in Callers, SoundTurn(c), NEW d \in Callers
      PROVE  Sound(pc[d], job[d])'
  <2>1. PICK l \in Labels, j \in Job : Turn(c, l, j) /\ Sound(l, j)'
    BY <1>3 DEF SoundTurn
  <2>2. /\ pc'[c] = l /\ job'[c] = j
        /\ d # c => pc'[d] = pc[d] /\ job'[d] = job[d]
    BY <2>1 DEF Turn, StoreInv, TypeOK
  <2> QED
    BY <1>1, <1>2, <2>1, <2>2
<1> QED
  BY <1>2, <1>3 DEF JobsSound

LEMMA CalmInit == Init => CalmInv
<1> SUFFICES ASSUME Init PROVE CalmKeys /\ JobsSound
  BY DEF CalmInv
<1>1. \A t \in Tokens : rec[t] = [st |-> "unused", sid |-> Nil, dead |-> FALSE, fresh |-> FALSE]
  BY DEF Init
<1>2. CalmKeys
  BY <1>1 DEF Init, CalmKeys, Single, Complete, Used, Usable, Exists
<1>3. Sound("idle", NoJob)
  BY DEF Sound, NoJob
<1> QED
  BY <1>2, <1>3 DEF Init, JobsSound

LEMMA CalmStep ==
  ASSUME StoreInv, CalmInv, [Next]_vars
  PROVE  CalmInv'
<1>1. StoreInv' /\ TypeOK
  BY StoreStep DEF StoreInv
<1>2. mix' = mix
  BY DEF Next, vars
<1> SUFFICES ASSUME Steady PROVE CalmKeys' /\ JobsSound'
  BY <1>2 DEF CalmInv, Steady
<1>3. CalmKeys /\ JobsSound
  BY DEF CalmInv
<1>4. CASE UNCHANGED vars
  <2>1. CalmKeys' /\ OverLasts
    BY <1>3, <1>4, CalmCaller DEF CalmCallerKeys, vars, keys, clients
  <2>2. UNCHANGED <<pc, job>>
    BY <1>4 DEF vars
  <2> QED
    BY <1>3, <2>1, <2>2, SoundJobs
<1>5. ASSUME NEW t \in Tokens, ClientStep(t)
      PROVE  CalmKeys' /\ JobsSound'
  <2>1. CalmKeys' /\ OverLasts
    BY <1>3, <1>5, CalmClient
  <2>2. UNCHANGED <<pc, job>>
    BY <1>1, <1>5, ClientFrame
  <2> QED
    BY <1>3, <2>1, <2>2, SoundJobs
<1>6. ASSUME NEW c \in Callers, Step(c) \/ \E u \in Users : Begin(c, u)
      PROVE  CalmKeys' /\ JobsSound'
  <2>1. Sound(pc[c], job[c])
    BY <1>3 DEF JobsSound
  <2>2. CalmKeys' /\ OverLasts
    BY <1>3, <1>6, <2>1, CalmCallerFrame, CallerFrame, CalmCaller
  <2>3. SoundTurn(c)
    BY <1>1, <1>3, <1>6, <2>1, <2>2, SoundBegin, SoundStep
  <2> QED
    BY <1>3, <2>2, <2>3, SoundJobs
<1> QED
  BY <1>1, <1>4, <1>5, <1>6, Steps

THEOREM CalmInvariant == Spec => []CalmInv
<1>1. StoreInv /\ CalmInv /\ [Next]_vars => CalmInv'
  BY CalmStep
<1> QED
  BY <1>1, CalmInit, StoreInvariant, PTL DEF Spec

\* Where no session rotates and no touch outlives its deadline, the locator and
\* the index name every usable session, whatever listings, healings, purges and
\* revocations run into each other (the multi-key invariant of SessionStore).
THEOREM AllListed == Spec => []InventoryComplete
<1>1. CalmInv => InventoryComplete
  BY DEF CalmInv, CalmKeys, Complete, InventoryComplete
<1> QED
  BY <1>1, CalmInvariant, PTL

\* There, what a revocation reports as revoked is gone and stays gone
\* (RevokeAllOtherSessions, RevokeSessionsBeforeEpoch).
THEOREM ReportsTrue == Spec => []ReportedIsGone
<1>1. CalmInv => ReportedIsGone
  BY DEF CalmInv, JobsSound, Sound, Over, ReportedIsGone, RevokedIsGone
<1> QED
  BY <1>1, CalmInvariant, PTL

\* There, a walk that answers success has left none of the sessions it set out
\* to revoke, whatever commands failed and whatever it skipped.
THEOREM WalksFinish == Spec => []WalkComplete
<1>1. StoreInv /\ CalmInv => WalkComplete
  <2> SUFFICES ASSUME StoreInv, CalmInv, Steady, NEW c \in Callers, job[c].reply = "ok",
                      NEW s \in job[c].aims
               PROVE  ~Live(s)
    BY DEF WalkComplete
  <2>1. Fits(pc[c], job[c]) /\ Sound(pc[c], job[c])
    BY DEF StoreInv, JobsFit, CalmInv, JobsSound
  <2>2. pc[c] = "idle" /\ job[c].todo = {}
    BY <2>1 DEF Fits, Stage
  <2> QED
    BY <2>1, <2>2 DEF Sound, Over
<1> QED
  BY <1>1, StoreInvariant, CalmInvariant, PTL

=============================================================================
