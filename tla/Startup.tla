------------------------------- MODULE Startup -------------------------------
(***************************************************************************)
(* Starting branchd (or a local pgb) on a state directory that others use  *)
(* at the same time: opening and migrating the registry file               *)
(* (internal/registry), choosing the at-rest key (internal/config),        *)
(* re-encrypting stored branch passwords, and then rotating them           *)
(* (internal/engine), beside recovers, which rotate nothing, and while an  *)
(* operator changes keys and builds.                                       *)
(*                                                                         *)
(* A stored password is reduced to its scheme, the key it is under and     *)
(* which minted password it is; 0 stands for the source's own credentials. *)
(* SQLite serialises transactions: one of them is one step.  A destroy     *)
(* that forces its way into a saga is left to Engine.tla.                  *)
(***************************************************************************)
EXTENDS Naturals, Sequences

CONSTANTS
    Daemons, Clis,    \* branchd replicas; local pgb invocations
    OldBuilds,        \* processes of the previous release: one migration fewer
    Rows,             \* branches
    OpKeys,           \* keys an operator may configure
    Tokens,           \* values of PGOVERLAY_TOKEN
    None,
    Latest,           \* len(migrations) of the current release
    MaxMint,          \* bound on passwords minted
    MaxOps,           \* bound on operator changes
    MaxFaults         \* bound on crashes and failed steps

Procs == Daemons \cup Clis
Keys == OpKeys \cup Procs          \* a process generates the key named after it
Build(p) == IF p \in OldBuilds THEN Latest - 1 ELSE Latest

ASSUME StartupAssumption ==
    /\ Latest \in Nat \ {0, 1} /\ MaxMint \in Nat /\ MaxOps \in Nat /\ MaxFaults \in Nat
    /\ None \notin Keys \cup Tokens \cup {"partial"} /\ "partial" \notin Keys

VARIABLES
    db,        \* the file's user_version, the migrations its tables went through, its instance id
    keyFile,   \* <state dir>/secret.key: absent, being written, or a key
    rows,      \* branch rows, with the password of the role inside the branch, whether a failed
               \* branch kept its volume (vol), and whether its last create or reset is still
               \* open or went through (last)
    conf,      \* the environment the next process is started with; does the file system have hard links
    proc,      \* the processes
    mints, ops, faults

vars == <<db, keyFile, rows, conf, proc, mints, ops, faults>>

Plain(pw) == [scheme |-> "plain", key |-> None, pw |-> pw]
NoPassword == [scheme |-> "none", key |-> None, pw |-> 0]

Down == [pc |-> "down", env |-> None, prev |-> {}, tok |-> None, ver |-> 0, iid |-> None,
         key |-> None, keys |-> {}, row |-> None, had |-> FALSE, pw |-> 0]

NewRow == [state |-> "absent", stored |-> NoPassword, role |-> 0, vol |-> "gone", last |-> "open"]

\* A new state directory and an environment without a key.
FreshInit ==
    /\ \E tok \in Tokens, links \in BOOLEAN :
        conf = [env |-> None, prev |-> {}, tok |-> tok, done |-> FALSE, links |-> links]
    /\ db = [version |-> 0, applied |-> << >>, iid |-> None]
    /\ rows = [b \in Rows |-> NewRow]
    /\ keyFile = None /\ mints = 0

\* A directory at version v that the previous release left: each branch is in service with a
\* password stored in the clear, under the token or under the configured key.
UpgradeInit(v) ==
    /\ \E tok \in Tokens, env \in OpKeys \cup {None} :
        /\ conf = [env |-> env, prev |-> {}, tok |-> tok, done |-> FALSE, links |-> TRUE]
        /\ rows \in [Rows -> {[NewRow EXCEPT !.state = "ready", !.stored = s, !.role = 1, !.last = "through"] :
                s \in {Plain(1), [scheme |-> "v1", key |-> tok, pw |-> 1]} \cup
                      {[scheme |-> "v2", key |-> k, pw |-> 1] : k \in {env} \ {None}}}]
    /\ \E p \in Daemons : db = [version |-> v, applied |-> [i \in 1..v |-> i], iid |-> p]
    /\ keyFile = None /\ mints = 1

StartupInit ==
    /\ FreshInit \/ UpgradeInit(Latest - 1) \/ UpgradeInit(Latest)
    /\ proc = [p \in Procs |-> Down]
    /\ ops = MaxOps /\ faults = MaxFaults

Fault == faults > 0 /\ faults' = faults - 1
NoFault == UNCHANGED faults

At(p, pc) == proc[p].pc = pc
Go(p, pc) == proc' = [proc EXCEPT ![p].pc = pc]
Put(p, q) == proc' = [proc EXCEPT ![p] = q]
Exit(p) == Put(p, Down)

-----------------------------------------------------------------------------
(* registry.Open *)

OnlyOpen == UNCHANGED <<keyFile, rows, conf, mints, ops>>

\* A file of a later release is refused (ErrSchemaTooNew).
checkVersion(p) == db.version <= Build(p)

\* migrate's fast path: nothing to do on a file that is up to date.
migrate(p) == IF db.version = Build(p) THEN "mint" ELSE "migrate"

\* A process starts, with the environment as it is now, and connects (retrying
\* while another opener converts the file to WAL); the version is first read
\* without a lock.
Open(p) ==
    /\ At(p, "down") /\ OnlyOpen /\ UNCHANGED db
    /\ NoFault /\ checkVersion(p)
    /\ Put(p, [Down EXCEPT !.env = conf.env, !.prev = conf.prev, !.tok = conf.tok,
                  !.ver = db.version, !.pc = migrate(p)])

\* The DDL of migration v: v1, v10 and v12 create what is missing, the others fail
\* on tables that already have it.
Replayable(v) == v \in {1, 10, 12}
Applies(v) == Replayable(v) \/ \A i \in DOMAIN db.applied : db.applied[i] # v

\* Mutant: the step trusts the version read before the write lock.
migrateStepStale(p) ==
    LET v == proc[p].ver IN
    /\ At(p, "migrate") /\ OnlyOpen
    /\ \/ Fault /\ Exit(p) /\ UNCHANGED db
       \/ /\ NoFault
          /\ IF v = Build(p) THEN Go(p, "mint") /\ UNCHANGED db
             ELSE IF Applies(v + 1)
                  THEN /\ db' = [db EXCEPT !.version = v + 1, !.applied = Append(@, v + 1)]
                       /\ Put(p, [proc[p] EXCEPT !.ver = v + 1])
                  ELSE Exit(p) /\ UNCHANGED db

\* migrateStep: one write transaction reads the version, applies the next
\* migration and moves the version by one; a failure rolls all of it back.
migrateStep(p) ==
    LET v == db.version IN
    /\ At(p, "migrate") /\ OnlyOpen
    /\ \/ Fault /\ Exit(p) /\ UNCHANGED db
       \/ NoFault /\ ~checkVersion(p) /\ Exit(p) /\ UNCHANGED db
       \/ NoFault /\ v = Build(p) /\ Go(p, "mint") /\ UNCHANGED db
       \/ /\ NoFault /\ v < Build(p)
          /\ IF Applies(v + 1)
             THEN /\ db' = [db EXCEPT !.version = v + 1, !.applied = Append(@, v + 1)]
                  /\ UNCHANGED proc
             ELSE Exit(p) /\ UNCHANGED db

\* ensureInstanceID: insert unless there is one, then read it back.
MintInstanceID(p) ==
    /\ At(p, "mint") /\ NoFault /\ OnlyOpen
    /\ db' = [db EXCEPT !.iid = IF @ = None THEN p ELSE @]
    /\ Go(p, "iid")

ReadInstanceID(p) ==
    /\ At(p, "iid") /\ NoFault /\ OnlyOpen /\ UNCHANGED db
    /\ Put(p, [proc[p] EXCEPT !.pc = "key", !.iid = db.iid, !.ver = 0])

-----------------------------------------------------------------------------
(* configureSecrets, openRegistryAt *)

OnlyKeys == UNCHANGED <<db, rows, conf, mints, ops>>

\* The key file holds a whole key.
readKeyFile == keyFile \in Keys

\* A key that cannot be loaded stops branchd; pgb warns and goes on without.
Unloadable(p) == IF p \in Daemons THEN Exit(p) ELSE Go(p, "prev")

\* LoadSecretKey: the configured key, else the state directory's, else none yet:
\* branchd then generates one, pgb goes on without.
LoadSecretKey(p) ==
    LET q == proc[p] IN
    /\ At(p, "key") /\ NoFault /\ OnlyKeys /\ UNCHANGED keyFile
    /\ \/ q.env # None /\ Put(p, [q EXCEPT !.pc = "prev", !.key = q.env])
       \/ q.env = None /\ readKeyFile /\ Put(p, [q EXCEPT !.pc = "prev", !.key = keyFile])
       \/ q.env = None /\ keyFile = None /\ Go(p, IF p \in Daemons THEN "link" ELSE "prev")
       \/ q.env = None /\ keyFile = "partial" /\ Unloadable(p)

\* Mutant: the generated key is renamed into place.
generateKeyFileRenamed(p) ==
    /\ At(p, "link") /\ NoFault /\ OnlyKeys
    /\ keyFile' = p /\ Put(p, [proc[p] EXCEPT !.pc = "prev", !.key = p])

\* generateKeyFile: the whole key is linked into place unless a file is there,
\* in which case that one is read; without hard links the file is created
\* exclusively and written in place.
generateKeyFile(p) ==
    LET q == proc[p] IN
    /\ At(p, "link") /\ NoFault /\ OnlyKeys
    /\ \/ /\ keyFile = None /\ conf.links
          /\ keyFile' = p /\ Put(p, [q EXCEPT !.pc = "prev", !.key = p])
       \/ keyFile = None /\ ~conf.links /\ keyFile' = "partial" /\ Go(p, "write")
       \/ readKeyFile /\ UNCHANGED keyFile /\ Put(p, [q EXCEPT !.pc = "prev", !.key = keyFile])
       \/ keyFile = "partial" /\ UNCHANGED keyFile /\ Exit(p)

writeExclusive(p) ==
    /\ At(p, "write") /\ OnlyKeys
    /\ \/ NoFault /\ keyFile' = p /\ Put(p, [proc[p] EXCEPT !.pc = "prev", !.key = p])
       \/ Fault /\ UNCHANGED keyFile /\ Exit(p)

\* From here on only the primary key is used.
Serve(q) == [q EXCEPT !.pc = "up", !.keys = {}, !.tok = None]

\* newSecretBox: the keys that open a value, for a process and the file it read.
newSecretBox(q, file) == ({q.key, file} \cup q.prev) \cap Keys

\* SetSecretKeys; a pgb serves at once (what it can read has no part in what it
\* writes).
SetSecretKeys(p, q, file) ==
    IF p \in Daemons THEN [q EXCEPT !.pc = "reencrypt", !.keys = newSecretBox(q, file)]
    ELSE Serve(q)

\* PreviousSecretKeys: what else this process can read.
PreviousSecretKeys(p) ==
    /\ At(p, "prev") /\ NoFault /\ OnlyKeys /\ UNCHANGED keyFile
    /\ Put(p, SetSecretKeys(p, proc[p], keyFile))

\* secretBox: encrypt, decrypt, isCurrent, for a process's keys.
encrypt(q, pw) ==
    CASE pw = 0 -> NoPassword
      [] pw # 0 /\ q.key = None -> Plain(pw)
      [] OTHER -> [scheme |-> "v2", key |-> q.key, pw |-> pw]

decrypts(q, s) == CASE s.scheme = "v2" -> s.key \in q.keys
                    [] s.scheme = "v1" -> s.key = q.tok
                    [] OTHER -> TRUE

\* Mutant: every enc:v2: value counts as current.
isCurrentAnyKey(q, s) == s.scheme \in {"none", "v2"} \/ q.key = None

isCurrent(q, s) == \/ s.scheme = "none" \/ q.key = None
                   \/ s.scheme = "v2" /\ s.key = q.key

\* No process started with other keys is left.
AllOn(c) == \A p \in Procs : ~At(p, "down") => proc[p].env = c.env /\ proc[p].prev = c.prev

\* ReencryptSecrets, in one transaction; rows no key opens are left alone.
ReencryptSecrets(p) ==
    LET q == proc[p] IN
    /\ At(p, "reencrypt") /\ UNCHANGED <<db, keyFile, mints, ops>>
    /\ \/ /\ NoFault /\ Put(p, Serve(q))
          /\ rows' = [b \in Rows |->
                IF /\ rows[b].state # "destroyed"
                   /\ ~isCurrent(q, rows[b].stored) /\ decrypts(q, rows[b].stored)
                THEN [rows[b] EXCEPT !.stored = encrypt(q, @.pw)] ELSE rows[b]]
          /\ conf' = [conf EXCEPT !.done = @ \/ AllOn(conf)]
       \/ Fault /\ Exit(p) /\ UNCHANGED <<rows, conf>>

-----------------------------------------------------------------------------
(* Credentials: the part of a create or a reset that concerns them. *)

OnlyRows == UNCHANGED <<db, keyFile, conf, ops>>
Row(p) == proc[p].row
Move(b, to) == rows' = [rows EXCEPT ![b].state = to]

\* A reset reads its row, and claims it with a swap on the state later.
ReadRow(p, b) ==
    /\ At(p, "up") /\ rows[b].state \in {"ready", "failed"}
    /\ Put(p, [proc[p] EXCEPT !.pc = "claim", !.row = b, !.had = rows[b].stored # NoPassword])
    /\ OnlyRows /\ UNCHANGED <<rows, mints, faults>>

\* A create inserts its row instead.
CreateRow(p, b) ==
    /\ At(p, "up") /\ rows[b].state = "absent" /\ Move(b, "busy")
    /\ Put(p, [proc[p] EXCEPT !.pc = "rotate", !.row = b, !.had = FALSE])
    /\ OnlyRows /\ UNCHANGED <<mints, faults>>

Leave(q) == [q EXCEPT !.pc = "up", !.row = None, !.had = FALSE, !.pw = 0]

\* The claim; then the branch is cloned afresh, with the source's credentials.
ClaimRow(p) ==
    LET q == proc[p] IN
    /\ At(p, "claim") /\ OnlyRows /\ UNCHANGED <<mints, faults>>
    /\ IF rows[q.row].state \in {"ready", "failed"}
       THEN /\ rows' = [rows EXCEPT ![q.row] =
                    [@ EXCEPT !.state = "busy", !.role = 0, !.vol = "gone", !.last = "open"]]
            /\ Go(p, "rotate")
       ELSE UNCHANGED rows /\ Put(p, Leave(q))

\* rotateBranchCredentials, up to the ALTER ROLE inside the branch.  pgb does
\* not rotate: it clears what the row it read carried.
rotateBranchCredentials(p) ==
    LET q == proc[p] IN
    /\ At(p, "rotate") /\ OnlyRows
    /\ \/ /\ p \in Daemons /\ mints < MaxMint /\ mints' = mints + 1 /\ NoFault
          /\ rows' = [rows EXCEPT ![q.row].role = mints + 1]
          /\ Put(p, [q EXCEPT !.pc = "set", !.pw = mints + 1])
       \/ /\ p \in Clis /\ UNCHANGED <<rows, mints>> /\ NoFault
          /\ Go(p, IF q.had THEN "set" ELSE "mark")
       \/ Fault /\ Go(p, "fail") /\ UNCHANGED <<rows, mints>>

\* SetBranchPassword, whatever the row's state.
SetBranchPassword(p) ==
    LET q == proc[p] IN
    /\ At(p, "set") /\ OnlyRows /\ UNCHANGED mints
    /\ \/ NoFault /\ Go(p, "mark") /\ rows' = [rows EXCEPT ![q.row].stored = encrypt(q, q.pw)]
       \/ Fault /\ Go(p, "fail") /\ UNCHANGED rows

\* Row b fails.  Its volume is removed if that works and no other branch needs it;
\* otherwise the data is kept, and with it the password its role has by then.
FailRow(b, vol) == rows' = [rows EXCEPT ![b] = [@ EXCEPT !.state = "failed", !.vol = vol]]

\* The row becomes ready, or the saga fails it, if it is still the saga's.
EndSaga(p) ==
    LET q == proc[p] IN
    /\ q.pc \in {"mark", "fail"} /\ OnlyRows /\ UNCHANGED <<mints, faults>>
    /\ \/ rows[q.row].state # "busy" /\ UNCHANGED rows
       \/ /\ rows[q.row].state = "busy" /\ q.pc = "mark"
          /\ rows' = [rows EXCEPT ![q.row] = [@ EXCEPT !.state = "ready", !.last = "through"]]
       \/ /\ rows[q.row].state = "busy" /\ q.pc = "fail"
          /\ \E vol \in {"kept", "gone"} : FailRow(q.row, vol)
    /\ Put(p, Leave(q))

\* reconcile fails a row whose saga is gone (heartbeats are timely).
FailStuck(b) ==
    /\ rows[b].state = "busy" /\ \A p \in Procs : Row(p) # b
    /\ \E vol \in {"kept", "gone"} : FailRow(b, vol)
    /\ OnlyRows /\ UNCHANGED <<proc, mints, faults>>

\* reconcile's restart of a branch in service fails: its volumes are kept.
restartBranch(b) ==
    /\ rows[b].state = "ready" /\ Fault /\ FailRow(b, "kept")
    /\ OnlyRows /\ UNCHANGED <<proc, mints>>

-----------------------------------------------------------------------------
(* RecoverBranch: a failed branch restarts on the data it kept, and no       *)
(* password is rotated.                                                      *)

\* The row and its volume are looked at (checkBranchData),
RecoverBranch(p, b) ==
    /\ At(p, "up") /\ rows[b].state = "failed" /\ rows[b].vol = "kept"
    /\ Put(p, [proc[p] EXCEPT !.pc = "recover", !.row = b])
    /\ OnlyRows /\ UNCHANGED <<rows, mints, faults>>

\* the row is claimed with a swap on the state; a volume that is gone by then comes
\* back empty, over the source's data,
ClaimFailed(p) ==
    LET q == proc[p]
        w == rows[q.row] IN
    /\ At(p, "recover") /\ OnlyRows /\ UNCHANGED <<mints, faults>>
    /\ IF w.state = "failed"
       THEN /\ rows' = [rows EXCEPT ![q.row] = [w EXCEPT !.state = "busy", !.vol = "kept",
                                        !.role = IF w.vol = "kept" THEN w.role ELSE 0]]
            /\ Go(p, "restart")
       ELSE UNCHANGED rows /\ Put(p, Leave(q))

\* and the branch is in service again, or failed as it was.
restartAndMarkReady(p) ==
    LET q == proc[p] IN
    /\ At(p, "restart") /\ OnlyRows /\ UNCHANGED mints
    /\ \/ NoFault /\ rows[q.row].state = "busy" /\ Move(q.row, "ready")
       \/ Fault /\ rows[q.row].state = "busy" /\ Move(q.row, "failed")
       \/ NoFault /\ rows[q.row].state # "busy" /\ UNCHANGED rows
    /\ Put(p, Leave(q))

-----------------------------------------------------------------------------

\* A branch is destroyed; the trigger of v15 clears the password with the state.
Destroy(b) ==
    /\ rows[b].state \in {"ready", "failed"} /\ ops > 0 /\ ops' = ops - 1
    /\ rows' = [rows EXCEPT ![b] = [@ EXCEPT !.state = "destroyed", !.stored = NoPassword]]
    /\ UNCHANGED <<db, keyFile, conf, proc, mints, faults>>

-----------------------------------------------------------------------------
(* The operator. *)

OnlyConf == UNCHANGED <<db, keyFile, rows, proc, mints, faults>> /\ ops > 0 /\ ops' = ops - 1

\* A new at-rest key; the one it replaces is put among the previous ones.
RotateKey(k) ==
    /\ k \notin conf.prev \cup {conf.env} /\ OnlyConf
    /\ conf' = [conf EXCEPT !.env = k, !.prev = @ \cup ({conf.env} \ {None}), !.done = FALSE]

\* The previous keys are dropped after a start with all processes on the new key.
DropPrevious ==
    /\ conf.prev # {} /\ conf.done /\ OnlyConf
    /\ conf' = [conf EXCEPT !.prev = {}, !.done = FALSE]

\* The admin token is rotated, after a start that could read what it protected.
RotateToken(t) ==
    /\ t # conf.tok /\ conf.done /\ OnlyConf
    /\ conf' = [conf EXCEPT !.tok = t]

\* A process is stopped or dies.
Stop(p) ==
    /\ ~At(p, "down") /\ Exit(p) /\ UNCHANGED <<db, keyFile, rows, conf, mints, ops>>
    /\ IF At(p, "up") THEN NoFault ELSE Fault

-----------------------------------------------------------------------------

Opening(p) == Open(p) \/ migrateStep(p) \/ MintInstanceID(p) \/ ReadInstanceID(p)
Keying(p) == \/ LoadSecretKey(p) \/ generateKeyFile(p) \/ writeExclusive(p)
             \/ PreviousSecretKeys(p) \/ ReencryptSecrets(p)
Rotating(p) == \/ \E b \in Rows : ReadRow(p, b) \/ CreateRow(p, b)
               \/ ClaimRow(p) \/ rotateBranchCredentials(p) \/ SetBranchPassword(p) \/ EndSaga(p)
Recovering(p) == \/ \E b \in Rows : RecoverBranch(p, b)
                 \/ ClaimFailed(p) \/ restartAndMarkReady(p)

StartupNext ==
    \/ \E p \in Procs : Opening(p) \/ Keying(p) \/ Rotating(p) \/ Recovering(p) \/ Stop(p)
    \/ \E b \in Rows : FailStuck(b) \/ restartBranch(b) \/ Destroy(b)
    \/ \E k \in OpKeys : RotateKey(k)
    \/ DropPrevious
    \/ \E t \in Tokens : RotateToken(t)

StartupSpec == StartupInit /\ [][StartupNext]_vars

-----------------------------------------------------------------------------
(* Properties. *)

\* Migrations are applied once each and in order, however many processes of
\* whatever release open the file together and wherever they die: the tables
\* are those of the version the file claims (migrateStep).
MigratedInOrder == db.applied = [v \in 1..db.version |-> v]

\* Processes that start together agree on who they are.  Every one that got past
\* Open stamps and collects resources under the one id the file has, also when two
\* of them minted one (ensureInstanceID); and replicas that generate a key at the
\* same time "all end up with the key the first writer published": no password is
\* written under a key that was overwritten (generateKeyFile).
OneIdentity ==
    \A p \in Procs : /\ proc[p].iid \in {None, db.iid}
                     /\ proc[p].env = None /\ proc[p].key # None => proc[p].key = keyFile

\* The keys a process started now would have.
KeysNow == ({conf.env, keyFile} \cup conf.prev) \cap Keys

\* The password of a live branch can be read with the keys configured now: key
\* and token rotation, replicas of both configurations writing at once, and
\* starts that die half way, lose none (ReencryptSecrets, isCurrent).  And once a
\* create or a reset that rotates has put a branch in service, the password of its
\* role is the one on its row, also while it fails and is recovered: re-encryption
\* never puts back an older one, and the branch is not marked ready between the two
\* steps of a rotation (rotateBranchCredentials, SetBranchPassword).  Of a branch
\* recovered after a create or reset that stopped half way this is not so.
PasswordsUsable ==
    \A b \in Rows : rows[b].state # "destroyed" =>
        /\ decrypts([keys |-> KeysNow, tok |-> conf.tok], rows[b].stored)
        /\ rows[b].last = "through" /\ rows[b].role # 0 => rows[b].stored.pw = rows[b].role
=============================================================================
