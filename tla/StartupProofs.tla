---------------------------- MODULE StartupProofs ----------------------------
(***************************************************************************)
(* Migrations in order, one identity per state directory, and passwords    *)
(* that stay usable: for any number of processes, releases, rows, keys,    *)
(* crashes and operator changes.                                           *)
(***************************************************************************)
EXTENDS Startup, TLAPS

\* The provers a leaf is tried with, unless it names its own.
USE SMTT(10), Zenon, SMTT(30)

Local == [pc : {"down", "migrate", "mint", "iid", "key", "link", "write", "prev", "reencrypt", "up",
                "claim", "rotate", "set", "mark", "fail", "recover", "restart"},
          env : OpKeys \cup {None}, prev : SUBSET OpKeys, tok : Tokens \cup {None}, ver : Nat,
          iid : Procs \cup {None}, key : Keys \cup {None}, keys : SUBSET Keys,
          row : Rows \cup {None}, had : BOOLEAN, pw : Nat]

Conf == [env : OpKeys \cup {None}, prev : SUBSET OpKeys, tok : Tokens,
         done : BOOLEAN, links : BOOLEAN]

StartupTypeOK ==
    /\ proc \in [Procs -> Local] /\ conf \in Conf /\ mints \in Nat
    /\ keyFile \in Keys \cup {None, "partial"}

\* The file's version and the tables behind it; its id is of one process.
FileInv(d) ==
    /\ d \in [version : Nat, applied : Seq(Nat), iid : Procs \cup {None}]
    /\ d.applied = [v \in 1..d.version |-> v]

\* Whoever writes the key file in place is the only one, and it is not whole yet.
WriterInv ==
    /\ \A p \in Procs : At(p, "write") => keyFile = "partial"
    /\ \A p, q \in Procs : At(p, "write") /\ At(q, "write") => p = q

StartupInv == StartupTypeOK /\ FileInv(db) /\ WriterInv /\ OneIdentity

-----------------------------------------------------------------------------

\* Process p becomes q: the id once minted and a key once whole stay.
Becomes(p, q) ==
    /\ proc' = [proc EXCEPT ![p] = q] /\ q \in Local
    /\ conf' \in Conf /\ mints' \in Nat
    /\ FileInv(db') /\ (db.iid # None => db'.iid = db.iid)
    /\ keyFile' \in Keys \cup {None, "partial"}
    /\ keyFile' = keyFile \/ keyFile = None \/ At(p, "write")
    /\ q.pc = "write" => keyFile = None /\ keyFile' = "partial"
    /\ q.iid \in {None, db'.iid}
    /\ q.env = None /\ q.key # None => q.key = keyFile'

\* A process that becomes q keeps the invariant.
LEMMA BecomesKeeps ==
    ASSUME StartupInv, NEW p \in Procs, NEW q, Becomes(p, q)
    PROVE  StartupInv'
<1>1. /\ proc \in [Procs -> Local] /\ proc' \in [Procs -> Local] /\ proc'[p] = q
      /\ \A r \in Procs \ {p} : proc'[r] = proc[r]
    BY DEF StartupInv, StartupTypeOK, Becomes
<1>2. StartupTypeOK' /\ FileInv(db)'
    BY <1>1 DEF Becomes, StartupTypeOK, FileInv
<1>3. WriterInv'
    BY <1>1, StartupAssumption DEF Becomes, StartupInv, WriterInv, At
<1>4. OneIdentity'
    <2>1. ASSUME NEW r \in Procs \ {p}
          PROVE  /\ proc[r].iid \in {None, db'.iid}
                 /\ proc[r].env = None /\ proc[r].key # None => proc[r].key = keyFile'
        <3>0. proc[r] \in Local
            BY <1>1
        <3>a. proc[r].key \in Keys \cup {None}
            BY <3>0 DEF Local
        <3>1. /\ proc[r].iid \in {None, db.iid} /\ proc[r].key \in Keys \cup {None}
              /\ proc[r].env = None /\ proc[r].key # None => proc[r].key = keyFile
            BY <3>a DEF StartupInv, OneIdentity
        <3>2. proc[r].iid \in {None, db'.iid}
            BY <3>1 DEF Becomes
        <3>3. At(p, "write") => keyFile = "partial"
            BY DEF StartupInv, WriterInv
        <3>. QED BY <3>1, <3>2, <3>3, StartupAssumption DEF Becomes
    <2>2. q.iid \in {None, db'.iid} /\ (q.env = None /\ q.key # None => q.key = keyFile')
        BY DEF Becomes
    <2>. QED BY <1>1, <2>1, <2>2 DEF OneIdentity
<1>. QED BY <1>2, <1>3, <1>4 DEF StartupInv

\* What the invariant says of one process.
LEMMA Facts ==
    ASSUME StartupInv, NEW p \in Procs
    PROVE  /\ proc[p] \in Local /\ FileInv(db) /\ conf \in Conf /\ mints \in Nat
           /\ keyFile \in Keys \cup {None, "partial"}
           /\ proc[p].iid \in {None, db.iid}
           /\ proc[p].env = None /\ proc[p].key # None => proc[p].key = keyFile
           /\ Build(p) \in Nat /\ db.version \in Nat
<1>1. proc[p] \in Local /\ FileInv(db) /\ conf \in Conf /\ mints \in Nat /\ db.version \in Nat
    BY DEF StartupInv, StartupTypeOK, FileInv
<1>2. keyFile \in Keys \cup {None, "partial"}
    BY DEF StartupInv, StartupTypeOK
<1>3. /\ proc[p].iid \in {None, db.iid}
      /\ proc[p].env = None /\ proc[p].key # None => proc[p].key = keyFile
    BY DEF StartupInv, OneIdentity
<1>4. Build(p) \in Nat
    BY StartupAssumption DEF Build
<1>. QED BY <1>1, <1>2, <1>3, <1>4

\* A process exits.
LEMMA ExitKeeps ==
    ASSUME StartupInv, NEW p \in Procs, Exit(p), UNCHANGED <<db, keyFile, conf, mints>>
    PROVE  StartupInv'
<1>1. Down \in Local /\ Down.iid = None /\ Down.key = None /\ Down.pc = "down"
    BY DEF Down, Local
<1>. QED BY <1>1, BecomesKeeps, Facts, Zenon DEF Becomes, Exit, Put

\* A step that leaves a process with the key and the id it has.
LEMMA SameIdentity ==
    ASSUME StartupInv, NEW p \in Procs, NEW q \in Local, Put(p, q), UNCHANGED <<db, keyFile>>,
           conf' \in Conf, mints' \in Nat,
           q.pc # "write", q.env = proc[p].env, q.key = proc[p].key, q.iid \in {None, db.iid}
    PROVE  StartupInv'
BY BecomesKeeps, Facts, Zenon DEF Becomes, Put

\* A change of pc alone.
LEMMA GoKeeps ==
    ASSUME StartupInv, NEW p \in Procs,
           NEW pc \in {"mint", "iid", "key", "link", "prev", "rotate", "set", "mark", "fail", "restart"},
           Go(p, pc), UNCHANGED <<keyFile, conf>>, mints' \in Nat,
           FileInv(db'), db.iid # None => db'.iid = db.iid
    PROVE  StartupInv'
<1>. DEFINE q == [proc[p] EXCEPT !.pc = pc]
<1>1. /\ q \in Local /\ q.pc = pc /\ q.env = proc[p].env /\ q.key = proc[p].key
      /\ q.iid = proc[p].iid
    BY Facts DEF Local
<1>2. proc' = [proc EXCEPT ![p] = q]
    BY DEF Go
<1>. HIDE DEF q
<1>3. Becomes(p, q)
    BY <1>1, <1>2, Facts DEF Becomes
<1>. QED BY <1>3, BecomesKeeps

-----------------------------------------------------------------------------

\* One migration more: the tables of the next version.
LEMMA MigrationApplied ==
    ASSUME NEW d, FileInv(d)
    PROVE  /\ FileInv([d EXCEPT !.version = d.version + 1, !.applied = Append(@, d.version + 1)])
           /\ [d EXCEPT !.version = d.version + 1, !.applied = Append(@, d.version + 1)].iid = d.iid
<1>. DEFINE n == d.version
            e == [d EXCEPT !.version = n + 1, !.applied = Append(@, n + 1)]
<1>1. /\ n \in Nat /\ d.applied = [v \in 1..n |-> v] /\ d.applied \in Seq(Nat)
      /\ d \in [version : Nat, applied : Seq(Nat), iid : Procs \cup {None}]
    BY DEF FileInv
<1>2. Len(d.applied) = n
    BY <1>1
<1>3. Append(d.applied, n + 1) = [v \in 1..(n + 1) |-> v] /\ Append(d.applied, n + 1) \in Seq(Nat)
    BY <1>1, <1>2
<1>4. /\ e \in [version : Nat, applied : Seq(Nat), iid : Procs \cup {None}]
      /\ e.version = n + 1 /\ e.applied = Append(d.applied, n + 1) /\ e.iid = d.iid
    <2>1. ASSUME NEW m \in Nat, NEW t \in Seq(Nat)
          PROVE  /\ [d EXCEPT !.version = m, !.applied = t]
                       \in [version : Nat, applied : Seq(Nat), iid : Procs \cup {None}]
                 /\ [d EXCEPT !.version = m, !.applied = t].version = m
                 /\ [d EXCEPT !.version = m, !.applied = t].applied = t
                 /\ [d EXCEPT !.version = m, !.applied = t].iid = d.iid
        BY <1>1, Zenon
    <2>2. e = [d EXCEPT !.version = n + 1, !.applied = Append(d.applied, n + 1)]
        BY <1>1
    <2>3. n + 1 \in Nat
        BY <1>1
    <2>. HIDE DEF e
    <2>. QED BY <1>3, <2>1, <2>2, <2>3, Zenon
<1>. QED BY <1>3, <1>4 DEF FileInv

\* The steps of registry.Open keep the invariant.
LEMMA OpeningKeeps ==
    ASSUME StartupInv, NEW p \in Procs, Opening(p)
    PROVE  StartupInv'
<1>1. CASE Open(p)
    <2>. DEFINE q == [Down EXCEPT !.env = conf.env, !.prev = conf.prev, !.tok = conf.tok,
                                  !.ver = db.version, !.pc = migrate(p)]
    <2>1. /\ conf.env \in OpKeys \cup {None} /\ conf.prev \in SUBSET OpKeys /\ conf.tok \in Tokens
          /\ migrate(p) \in {"mint", "migrate"} /\ db.version \in Nat
        BY Facts DEF Conf, migrate
    <2>2. q \in Local /\ q.pc \in {"mint", "migrate"} /\ q.key = None /\ q.iid = None
        BY <2>1, Zenon DEF Local, Down
    <2>3. proc' = [proc EXCEPT ![p] = q] /\ UNCHANGED <<db, keyFile, conf, mints>>
        BY <1>1 DEF Open, Put, OnlyOpen
    <2>. HIDE DEF q
    <2>4. Becomes(p, q)
        BY <2>2, <2>3, Facts DEF Becomes
    <2>. QED BY <2>4, BecomesKeeps
<1>2. CASE migrateStep(p)
    <2>0. UNCHANGED <<keyFile, conf, mints>>
        BY <1>2 DEF migrateStep, OnlyOpen
    <2>1. CASE Exit(p) /\ UNCHANGED db
        BY <2>0, <2>1, ExitKeeps
    <2>2. CASE Go(p, "mint") /\ UNCHANGED db
        BY <2>0, <2>2, GoKeeps, Facts
    <2>3. CASE /\ db' = [db EXCEPT !.version = db.version + 1, !.applied = Append(@, db.version + 1)]
               /\ UNCHANGED proc
        <3>1. FileInv(db') /\ db'.iid = db.iid
            BY <2>3, MigrationApplied, Facts, Zenon DEF FileInv
        <3>. QED BY <2>0, <2>3, <3>1
                DEF StartupInv, StartupTypeOK, FileInv, WriterInv, OneIdentity, At
    <2>. QED BY <1>2, <2>1, <2>2, <2>3 DEF migrateStep
<1>3. CASE MintInstanceID(p)
    <2>. DEFINE i == IF db.iid = None THEN p ELSE db.iid
    <2>1. db' = [db EXCEPT !.iid = i]
        BY <1>3, Facts DEF MintInstanceID, FileInv
    <2>2. i \in Procs /\ (db.iid # None => i = db.iid)
        BY Facts, Zenon DEF FileInv
    <2>. HIDE DEF i
    <2>3. FileInv(db') /\ (db.iid # None => db'.iid = db.iid)
        BY <2>1, <2>2, Facts DEF FileInv
    <2>. QED BY <1>3, <2>3, GoKeeps, Facts DEF MintInstanceID, OnlyOpen
<1>4. CASE ReadInstanceID(p)
    <2>. DEFINE q == [proc[p] EXCEPT !.pc = "key", !.iid = db.iid, !.ver = 0]
    <2>1. /\ q \in Local /\ q.pc = "key" /\ q.env = proc[p].env /\ q.key = proc[p].key
          /\ q.iid = db.iid
        BY Facts, ZenonT(60) DEF Local, FileInv
    <2>2. Put(p, q) /\ UNCHANGED <<db, keyFile, conf, mints>>
        BY <1>4 DEF ReadInstanceID, OnlyOpen
    <2>. HIDE DEF q
    <2>. QED BY <2>1, <2>2, SameIdentity, Facts
<1>. QED BY <1>1, <1>2, <1>3, <1>4 DEF Opening

\* A process takes the key k, which is the configured one or the file's.
LEMMA Takes ==
    ASSUME StartupInv, NEW p \in Procs, NEW k \in Keys, UNCHANGED <<db, conf, mints>>,
           Put(p, [proc[p] EXCEPT !.pc = "prev", !.key = k]),
           proc[p].env = None => k = keyFile', keyFile' \in Keys \cup {None, "partial"},
           keyFile' = keyFile \/ keyFile = None \/ At(p, "write")
    PROVE  StartupInv'
<1>. DEFINE q == [proc[p] EXCEPT !.pc = "prev", !.key = k]
<1>1. /\ q \in Local /\ q.pc = "prev" /\ q.env = proc[p].env /\ q.key = k
      /\ q.iid = proc[p].iid
    BY Facts, ZenonT(60) DEF Local
<1>2. proc' = [proc EXCEPT ![p] = q]
    BY DEF Put
<1>. HIDE DEF q
<1>3. Becomes(p, q)
    BY <1>1, <1>2, Facts DEF Becomes
<1>. QED BY <1>3, BecomesKeeps

\* The record of a process that serves.
LEMMA ServeOK ==
    ASSUME NEW q \in Local
    PROVE  /\ Serve(q) \in Local /\ Serve(q).pc = "up" /\ Serve(q).env = q.env
           /\ Serve(q).key = q.key /\ Serve(q).iid = q.iid /\ Serve(q).prev = q.prev
           /\ Serve(q).tok = None /\ Serve(q).row = q.row /\ Serve(q).pw = q.pw
BY Zenon DEF Serve, Local

\* So do the steps that choose and load the keys,
LEMMA KeyingKeeps ==
    ASSUME StartupInv, NEW p \in Procs, Keying(p)
    PROVE  StartupInv'
<1>0. /\ proc[p] \in Local /\ proc[p].env \in OpKeys \cup {None} /\ OpKeys \subseteq Keys
      /\ p \in Keys
    BY Facts DEF Local, Keys
<1>1. CASE LoadSecretKey(p)
    <2>0. UNCHANGED <<db, conf, mints, keyFile>>
        BY <1>1 DEF LoadSecretKey, OnlyKeys
    <2>1. CASE proc[p].env # None /\ Put(p, [proc[p] EXCEPT !.pc = "prev", !.key = proc[p].env])
        BY <1>0, <2>0, <2>1, Takes, Facts, Zenon
    <2>2. CASE readKeyFile /\ Put(p, [proc[p] EXCEPT !.pc = "prev", !.key = keyFile])
        BY <1>0, <2>0, <2>2, Takes, Facts, Zenon DEF readKeyFile
    <2>3. CASE Go(p, "link") \/ Go(p, "prev")
        BY <2>0, <2>3, GoKeeps, Facts
    <2>4. CASE Exit(p)
        BY <2>0, <2>4, ExitKeeps
    <2>. QED BY <1>1, <2>1, <2>2, <2>3, <2>4 DEF LoadSecretKey, Unloadable
<1>2. CASE generateKeyFile(p)
    <2>0. UNCHANGED <<db, conf, mints>>
        BY <1>2 DEF generateKeyFile, OnlyKeys
    <2>1. CASE keyFile = None /\ keyFile' = p /\ Put(p, [proc[p] EXCEPT !.pc = "prev", !.key = p])
        BY <1>0, <2>0, <2>1, Takes, Facts, Zenon
    <2>2. CASE keyFile = None /\ keyFile' = "partial" /\ Go(p, "write") /\ proc[p].pc = "link"
        <3>. DEFINE q == [proc[p] EXCEPT !.pc = "write"]
        <3>1. /\ q \in Local /\ q.pc = "write" /\ q.env = proc[p].env /\ q.key = proc[p].key
              /\ q.iid = proc[p].iid
            BY Facts DEF Local
        <3>2. proc' = [proc EXCEPT ![p] = q]
            BY <2>2 DEF Go
        <3>. HIDE DEF q
        <3>3. Becomes(p, q)
            BY <2>0, <2>2, <3>1, <3>2, Facts DEF Becomes
        <3>. QED BY <3>3, BecomesKeeps
    <2>3. CASE readKeyFile /\ UNCHANGED keyFile /\ Put(p, [proc[p] EXCEPT !.pc = "prev", !.key = keyFile])
        BY <1>0, <2>0, <2>3, Takes, Facts, Zenon DEF readKeyFile
    <2>4. CASE UNCHANGED keyFile /\ Exit(p)
        BY <2>0, <2>4, ExitKeeps
    <2>. QED BY <1>2, <2>1, <2>2, <2>3, <2>4 DEF generateKeyFile, At
<1>3. CASE writeExclusive(p)
    <2>0. UNCHANGED <<db, conf, mints>> /\ At(p, "write")
        BY <1>3 DEF writeExclusive, OnlyKeys
    <2>1. CASE keyFile' = p /\ Put(p, [proc[p] EXCEPT !.pc = "prev", !.key = p])
        BY <1>0, <2>0, <2>1, Takes, Facts, Zenon
    <2>2. CASE UNCHANGED keyFile /\ Exit(p)
        BY <2>0, <2>2, ExitKeeps
    <2>. QED BY <1>3, <2>1, <2>2 DEF writeExclusive
<1>4. CASE PreviousSecretKeys(p)
    <2>0. UNCHANGED <<db, conf, mints, keyFile>> /\ Put(p, SetSecretKeys(p, proc[p], keyFile))
        BY <1>4 DEF PreviousSecretKeys, OnlyKeys
    <2>1. CASE p \in Daemons
        <3>. DEFINE ks == newSecretBox(proc[p], keyFile)
                    q == [proc[p] EXCEPT !.pc = "reencrypt", !.keys = ks]
        <3>1. ks \in SUBSET Keys
            BY DEF newSecretBox
        <3>. HIDE DEF ks
        <3>2. /\ q \in Local /\ q.pc = "reencrypt" /\ q.env = proc[p].env /\ q.key = proc[p].key
              /\ q.iid = proc[p].iid
            BY <3>1, Facts, ZenonT(60) DEF Local
        <3>3. Put(p, q)
            BY <2>0, <2>1 DEF SetSecretKeys, ks
        <3>. HIDE DEF q
        <3>. QED BY <2>0, <3>2, <3>3, SameIdentity, Facts
    <2>2. CASE p \notin Daemons
        <3>1. Put(p, Serve(proc[p]))
            BY <2>0, <2>2 DEF SetSecretKeys
        <3>. QED BY <2>0, <3>1, ServeOK, SameIdentity, Facts
    <2>. QED BY <2>1, <2>2
<1>5. CASE ReencryptSecrets(p)
    <2>0. UNCHANGED <<db, mints, keyFile>>
        BY <1>5 DEF ReencryptSecrets
    <2>1. CASE Put(p, Serve(proc[p])) /\ conf' = [conf EXCEPT !.done = @ \/ AllOn(conf)]
        <3>1. conf' \in Conf
            <4>1. PICK d \in BOOLEAN : conf' = [conf EXCEPT !.done = d]
                <5>1. conf' = [conf EXCEPT !.done = conf.done \/ AllOn(conf)]
                    BY <2>1
                <5>2. (conf.done \/ AllOn(conf)) \in BOOLEAN
                    OBVIOUS
                <5>. QED BY <5>1, <5>2, Zenon
            <4>. QED BY <4>1, Facts DEF Conf
        <3>. QED BY <2>0, <2>1, <3>1, ServeOK, SameIdentity, Facts
    <2>2. CASE Exit(p) /\ UNCHANGED conf
        BY <2>0, <2>2, ExitKeeps
    <2>. QED BY <1>5, <2>1, <2>2 DEF ReencryptSecrets
<1>. QED BY <1>1, <1>2, <1>3, <1>4, <1>5 DEF Keying

\* The record of a process whose saga is over.
LEMMA LeaveOK ==
    ASSUME NEW q \in Local
    PROVE  /\ Leave(q) \in Local /\ Leave(q).pc = "up" /\ Leave(q).env = q.env
           /\ Leave(q).key = q.key /\ Leave(q).iid = q.iid /\ Leave(q).prev = q.prev
           /\ Leave(q).tok = q.tok /\ Leave(q).row = None
BY Zenon DEF Leave, Local

\* the steps of a saga,
LEMMA RotatingKeeps ==
    ASSUME StartupInv, NEW p \in Procs, Rotating(p)
    PROVE  StartupInv'
<1>0. /\ UNCHANGED <<db, keyFile, conf>> /\ mints' \in Nat /\ conf' \in Conf /\ FileInv(db')
      /\ db.iid # None => db'.iid = db.iid
    <2>1. OnlyRows /\ (mints' = mints \/ mints' = mints + 1)
        BY Zenon DEF Rotating, ReadRow, CreateRow, ClaimRow, rotateBranchCredentials,
            SetBranchPassword, EndSaga
    <2>. QED BY <2>1, Facts DEF OnlyRows
<1>1. ASSUME NEW b \in Rows, ReadRow(p, b) \/ CreateRow(p, b)
      PROVE  StartupInv'
    <2>1. PICK had \in BOOLEAN, pc \in {"claim", "rotate"} :
            Put(p, [proc[p] EXCEPT !.pc = pc, !.row = b, !.had = had])
        <3>1. CASE ReadRow(p, b)
            <4>1. (rows[b].stored # NoPassword) \in BOOLEAN
                OBVIOUS
            <4>. QED BY <3>1, <4>1, Zenon DEF ReadRow
        <3>2. CASE CreateRow(p, b)
            BY <3>2, Zenon DEF CreateRow
        <3>. QED BY <1>1, <3>1, <3>2, Zenon
    <2>. DEFINE q == [proc[p] EXCEPT !.pc = pc, !.row = b, !.had = had]
    <2>2. /\ q \in Local /\ q.pc = pc /\ q.env = proc[p].env /\ q.key = proc[p].key
          /\ q.iid = proc[p].iid
        BY Facts, ZenonT(60) DEF Local
    <2>3. Put(p, q)
        BY <2>1
    <2>. HIDE DEF q
    <2>. QED BY <1>0, <2>2, <2>3, SameIdentity, Facts
<1>2. CASE Put(p, Leave(proc[p]))
    BY <1>0, <1>2, LeaveOK, SameIdentity, Facts
<1>3. CASE \E pc \in {"rotate", "set", "mark", "fail"} : Go(p, pc)
    BY <1>0, <1>3, GoKeeps
<1>4. CASE Put(p, [proc[p] EXCEPT !.pc = "set", !.pw = mints + 1])
    <2>. DEFINE q == [proc[p] EXCEPT !.pc = "set", !.pw = mints + 1]
    <2>1. mints + 1 \in Nat
        BY Facts
    <2>2. /\ q \in Local /\ q.pc = "set" /\ q.env = proc[p].env /\ q.key = proc[p].key
          /\ q.iid = proc[p].iid
        BY <2>1, Facts, ZenonT(60) DEF Local
    <2>3. Put(p, q)
        BY <1>4
    <2>. HIDE DEF q
    <2>. QED BY <1>0, <2>2, <2>3, SameIdentity, Facts
<1>5. CASE ClaimRow(p)
    BY <1>2, <1>3, <1>5 DEF ClaimRow
<1>6. CASE rotateBranchCredentials(p)
    BY <1>3, <1>4, <1>6 DEF rotateBranchCredentials
<1>7. CASE SetBranchPassword(p)
    BY <1>3, <1>7 DEF SetBranchPassword
<1>8. CASE EndSaga(p)
    BY <1>2, <1>8 DEF EndSaga
<1>. QED BY <1>1, <1>5, <1>6, <1>7, <1>8 DEF Rotating

\* the steps of a recover.
LEMMA RecoveringKeeps ==
    ASSUME StartupInv, NEW p \in Procs, Recovering(p)
    PROVE  StartupInv'
<1>0. /\ UNCHANGED <<db, keyFile, conf>> /\ mints' \in Nat /\ conf' \in Conf /\ FileInv(db')
      /\ db.iid # None => db'.iid = db.iid
    <2>1. OnlyRows /\ mints' = mints
        BY Zenon DEF Recovering, RecoverBranch, ClaimFailed, restartAndMarkReady
    <2>. QED BY <2>1, Facts DEF OnlyRows
<1>1. ASSUME NEW b \in Rows, RecoverBranch(p, b)
      PROVE  StartupInv'
    <2>. DEFINE q == [proc[p] EXCEPT !.pc = "recover", !.row = b]
    <2>1. /\ q \in Local /\ q.pc = "recover" /\ q.env = proc[p].env /\ q.key = proc[p].key
          /\ q.iid = proc[p].iid
        BY Facts, ZenonT(60) DEF Local
    <2>2. Put(p, q)
        BY <1>1 DEF RecoverBranch
    <2>. HIDE DEF q
    <2>. QED BY <1>0, <2>1, <2>2, SameIdentity, Facts
<1>2. CASE Put(p, Leave(proc[p]))
    BY <1>0, <1>2, LeaveOK, SameIdentity, Facts
<1>3. CASE Go(p, "restart")
    BY <1>0, <1>3, GoKeeps
<1>. QED BY <1>1, <1>2, <1>3 DEF Recovering, ClaimFailed, restartAndMarkReady

\* The operator and reconcile leave processes, file and key alone.
LEMMA OperatorKeeps ==
    ASSUME StartupInv, UNCHANGED <<db, keyFile, proc, mints>>, conf' \in Conf
    PROVE  StartupInv'
BY DEF StartupInv, StartupTypeOK, FileInv, WriterInv, OneIdentity, At

\* and the operator's changes.
LEMMA ConfKept ==
    ASSUME StartupInv,
           \/ \E k \in OpKeys : RotateKey(k)
           \/ DropPrevious
           \/ \E t \in Tokens : RotateToken(t)
    PROVE  conf' \in Conf
<1>0. conf \in Conf
    BY DEF StartupInv, StartupTypeOK
<1>1. ASSUME NEW k \in OpKeys, RotateKey(k)
      PROVE  conf' \in Conf
    <2>. DEFINE pr == conf.prev \cup ({conf.env} \ {None})
    <2>1. pr \in SUBSET OpKeys
        BY <1>0 DEF Conf
    <2>2. conf' = [conf EXCEPT !.env = k, !.prev = pr, !.done = FALSE]
        BY <1>1, Zenon DEF RotateKey
    <2>. HIDE DEF pr
    <2>. QED BY <1>0, <2>1, <2>2, Zenon DEF Conf
<1>2. CASE DropPrevious
    BY <1>0, <1>2, Zenon DEF DropPrevious, Conf
<1>3. ASSUME NEW t \in Tokens, RotateToken(t)
      PROVE  conf' \in Conf
    BY <1>0, <1>3 DEF RotateToken, Conf
<1>. QED BY <1>1, <1>2, <1>3

\* Every step keeps the invariant.
LEMMA StartupStep ==
    ASSUME StartupInv, [StartupNext]_vars
    PROVE  StartupInv'
<1>1. ASSUME NEW p \in Procs, Stop(p)
      PROVE  StartupInv'
    BY <1>1, ExitKeeps DEF Stop
<1>2. ASSUME NEW b \in Rows, FailStuck(b) \/ restartBranch(b) \/ Destroy(b)
      PROVE  StartupInv'
    <2>1. conf' \in Conf
        BY <1>2 DEF FailStuck, restartBranch, Destroy, OnlyRows, StartupInv, StartupTypeOK
    <2>. QED BY <1>2, <2>1, OperatorKeeps DEF FailStuck, restartBranch, Destroy, OnlyRows
<1>3. CASE \/ \E k \in OpKeys : RotateKey(k)
           \/ DropPrevious
           \/ \E t \in Tokens : RotateToken(t)
    BY <1>3, ConfKept, OperatorKeeps, Zenon DEF RotateKey, DropPrevious, RotateToken, OnlyConf
<1>4. CASE UNCHANGED vars
    <2>1. conf' \in Conf
        BY <1>4 DEF vars, StartupInv, StartupTypeOK
    <2>. QED BY <1>4, <2>1, OperatorKeeps DEF vars
<1>. QED BY <1>1, <1>2, <1>3, <1>4, OpeningKeeps, KeyingKeeps, RotatingKeeps, RecoveringKeeps DEF StartupNext

\* It holds at the start,
LEMMA StartupStart == StartupInit => StartupInv
<1>. SUFFICES ASSUME StartupInit PROVE StartupInv
    OBVIOUS
<1>1. Down \in Local /\ Down.iid = None /\ Down.key = None /\ Down.pc = "down"
    BY DEF Down, Local
<1>2. proc \in [Procs -> Local] /\ \A p \in Procs : proc[p] = Down
    BY <1>1 DEF StartupInit
<1>3. keyFile = None /\ mints \in Nat
    <2>1. CASE FreshInit
        BY <2>1 DEF FreshInit, StartupInit
    <2>2. ASSUME NEW n, UpgradeInit(n)
          PROVE  keyFile = None /\ mints \in Nat
        <3>1. keyFile = None /\ mints = 1
            BY <2>2, Zenon DEF UpgradeInit
        <3>. QED BY <3>1
    <2>. QED BY <2>1, <2>2, Zenon DEF StartupInit
<1>4. conf \in Conf
    <2>1. PICK tok \in Tokens, env \in OpKeys \cup {None}, links \in BOOLEAN :
            conf = [env |-> env, prev |-> {}, tok |-> tok, done |-> FALSE, links |-> links]
        <3>1. CASE FreshInit
            BY <3>1, Zenon DEF FreshInit
        <3>2. ASSUME NEW n, UpgradeInit(n)
              PROVE  \E tok \in Tokens, env \in OpKeys \cup {None} :
                conf = [env |-> env, prev |-> {}, tok |-> tok, done |-> FALSE, links |-> TRUE]
            BY <3>2, Zenon DEF UpgradeInit
        <3>. QED BY <3>1, <3>2, Zenon DEF StartupInit
    <2>. QED BY <2>1 DEF Conf
<1>5. FileInv(db)
    <2>1. CASE FreshInit
        BY <2>1 DEF FreshInit, FileInv
    <2>2. ASSUME NEW n \in Nat, UpgradeInit(n)
          PROVE  FileInv(db)
        <3>1. PICK p \in Daemons : db = [version |-> n, applied |-> [i \in 1..n |-> i], iid |-> p]
            BY <2>2, Zenon DEF UpgradeInit
        <3>2. [i \in 1..n |-> i] \in Seq(Nat)
            OBVIOUS
        <3>. QED BY <3>1, <3>2 DEF FileInv, Procs
    <2>. QED BY <2>1, <2>2, StartupAssumption DEF StartupInit
<1>6. WriterInv /\ OneIdentity
    BY <1>1, <1>2 DEF WriterInv, OneIdentity, At
<1>. QED BY <1>2, <1>3, <1>4, <1>5, <1>6 DEF StartupInv, StartupTypeOK

\* and so throughout.
LEMMA StartupInvariant == StartupSpec => []StartupInv
<1>1. StartupInit => StartupInv
    BY StartupStart
<1>2. StartupInv /\ [StartupNext]_vars => StartupInv'
    BY StartupStep
<1>. QED BY <1>1, <1>2, PTL DEF StartupSpec

\* Migrations are applied once each and in order (migrateStep): the tables are
\* those of the version the file claims, whoever opens it and wherever they die.
THEOREM MigrationsInOrder == StartupSpec => []MigratedInOrder
<1>1. StartupInv => MigratedInOrder
    BY DEF StartupInv, FileInv, MigratedInOrder
<1>. QED BY <1>1, StartupInvariant, PTL

\* Processes that share a state directory use its one id (ensureInstanceID) and,
\* without a configured key, the one key file (generateKeyFile, writeExclusive).
THEOREM IdentityIsOne == StartupSpec => []OneIdentity
<1>1. StartupInv => OneIdentity
    BY DEF StartupInv
<1>. QED BY <1>1, StartupInvariant, PTL

-----------------------------------------------------------------------------
(* Passwords.                                                                *)

\* Where a process owns its row: in a create or a reset, and in a recover.
Setting == {"rotate", "set", "mark", "fail"}
Sagas == Setting \cup {"restart"}
Booting == {"migrate", "mint", "iid", "key", "link", "write", "prev", "reencrypt"}

Stored == [scheme : {"none", "plain", "v1", "v2"}, key : Keys \cup Tokens \cup {None}, pw : Nat]
RowType == [state : {"absent", "busy", "ready", "failed", "destroyed"}, stored : Stored, role : Nat,
            vol : {"gone", "kept"}, last : {"open", "through"}]

\* What a row w may hold while the environment is c and the key file f: a value a
\* process started now can open, and the password of the branch's role once a create or
\* a reset went through.
RowInv(w, c, f) ==
    /\ w.state = "absent" => w.role = 0 /\ w.last = "open"
    /\ w.state # "destroyed" /\ w.stored.scheme = "v2" =>
          w.stored.key \in ({c.env, f} \cup c.prev) \cap Keys
    /\ w.state # "destroyed" /\ w.stored.scheme = "v1" => w.stored.key = c.tok
    /\ w.state # "destroyed" /\ w.last = "through" /\ w.role # 0 => w.stored.pw = w.role

\* A row that needs neither a previous key nor the token.
Current(w, c, f) ==
    w.state # "destroyed" => /\ w.stored.scheme # "v1"
                             /\ w.stored.scheme = "v2" => w.stored.key \in {c.env, f}

\* A process q writes under the configured key or the file's, opens everything it
\* was configured to, and owns the row whose role it sets.
LocalInv(p, q, c, R) ==
    /\ q.env # None => q.key \in {None, q.env}
    /\ q.pc # "down" => q.env \in {None, c.env} \cup c.prev
    /\ q.pc \in {"link", "write"} => q.env = None
    /\ q.pc \in {"prev", "reencrypt"} /\ p \in Daemons => q.key # None
    /\ q.pc = "reencrypt" => p \in Daemons /\ q.prev \subseteq q.keys
    /\ q.pc \in Sagas \cup {"claim", "recover"} => q.row \in Rows
    /\ q.pc \in Sagas => R[q.row].state = "busy"
    /\ q.pc \in Setting => R[q.row].last = "open"
    /\ q.pc \notin {"set", "mark", "fail"} => q.pw = 0
    /\ q.pc = "rotate" => R[q.row].role = 0
    /\ q.pc = "set" => R[q.row].role = q.pw
    /\ q.pc = "mark" => R[q.row].role \in {0, R[q.row].stored.pw}

PasswordsInv ==
    /\ rows \in [Rows -> RowType]
    /\ \A b \in Rows : RowInv(rows[b], conf, keyFile)
    /\ \A p \in Procs : LocalInv(p, proc[p], conf, rows)
    /\ \A p, r \in Procs : /\ proc[p].pc \in Sagas /\ proc[r].pc \in Sagas
                           /\ proc[p].row = proc[r].row
                           => p = r
    /\ conf.done => AllOn(conf) /\ \A b \in Rows : Current(rows[b], conf, keyFile)
    /\ \A p \in Procs, b \in Rows :
          /\ proc[p].pc \in Booting /\ rows[b].state # "destroyed"
          /\ rows[b].stored.scheme = "v1"
          => proc[p].tok = conf.tok

-----------------------------------------------------------------------------

\* The key file is kept, or comes into being.
KeyFileGrows == keyFile' = keyFile \/ keyFile \notin Keys

\* Process p becomes q, one started with the environment or what it was before.
Succeeds(p, q) ==
    /\ proc' = [proc EXCEPT ![p] = q] /\ q \in Local
    /\ q.pc = "down" \/ (q.env = proc[p].env /\ q.prev = proc[p].prev /\ proc[p].pc # "down")
                     \/ (q.env = conf.env /\ q.prev = conf.prev)
    /\ q.pc \in Booting => \/ proc[p].pc \in Booting /\ q.tok = proc[p].tok
                           \/ q.tok = conf.tok

\* A row stays readable when the key file comes into being.
LEMMA RowGrows ==
    ASSUME NEW w, NEW c, NEW f, NEW g, g = f \/ f \notin Keys
    PROVE  /\ RowInv(w, c, f) => RowInv(w, c, g)
           /\ RowInv(w, c, f) /\ Current(w, c, f) => Current(w, c, g)
BY DEF RowInv, Current

\* Only a process changes, and perhaps the key file appears.
LEMMA ProcOnly ==
    ASSUME StartupInv, PasswordsInv, NEW p \in Procs, NEW q, Succeeds(p, q), KeyFileGrows,
           UNCHANGED <<rows, conf>>, LocalInv(p, q, conf, rows),
           q.pc \in Sagas => proc[p].pc \in Sagas /\ q.row = proc[p].row
    PROVE  PasswordsInv'
<1>1. /\ proc \in [Procs -> Local] /\ proc'[p] = q
      /\ \A r \in Procs \ {p} : proc'[r] = proc[r]
    BY DEF StartupInv, StartupTypeOK, Succeeds
<1>2. \A b \in Rows : RowInv(rows[b], conf, keyFile')
    BY RowGrows DEF PasswordsInv, KeyFileGrows
<1>3. \A r \in Procs : LocalInv(r, proc'[r], conf, rows)
    BY <1>1 DEF PasswordsInv
<1>4. \A r1, r2 \in Procs : /\ proc'[r1].pc \in Sagas /\ proc'[r2].pc \in Sagas
                            /\ proc'[r1].row = proc'[r2].row
                            => r1 = r2
    BY <1>1 DEF PasswordsInv
<1>5. conf.done => /\ \A r \in Procs : proc'[r].pc # "down" =>
                          proc'[r].env = conf.env /\ proc'[r].prev = conf.prev
                   /\ \A b \in Rows : Current(rows[b], conf, keyFile')
    <2>1. ASSUME conf.done, NEW b \in Rows
          PROVE  Current(rows[b], conf, keyFile')
        <3>1. RowInv(rows[b], conf, keyFile) /\ Current(rows[b], conf, keyFile)
            BY <2>1 DEF PasswordsInv
        <3>. QED BY <3>1, RowGrows DEF KeyFileGrows
    <2>2. ASSUME conf.done, NEW r \in Procs, proc'[r].pc # "down"
          PROVE  proc'[r].env = conf.env /\ proc'[r].prev = conf.prev
        BY <1>1, <2>2 DEF PasswordsInv, Succeeds, AllOn, At
    <2>. QED BY <2>1, <2>2
<1>6. \A r \in Procs, b \in Rows :
        /\ proc'[r].pc \in Booting /\ rows[b].state # "destroyed" /\ rows[b].stored.scheme = "v1"
        => proc'[r].tok = conf.tok
    BY <1>1 DEF PasswordsInv, Succeeds
<1>. QED BY <1>2, <1>3, <1>4, <1>5, <1>6 DEF PasswordsInv, AllOn, At

\* Row b becomes w under a process that alone works on it.
LEMMA RowStep ==
    ASSUME StartupInv, PasswordsInv, NEW p \in Procs, NEW q, Succeeds(p, q), NEW b \in Rows, NEW w,
           rows' = [rows EXCEPT ![b] = w], w \in RowType, RowInv(w, conf, keyFile),
           UNCHANGED <<conf, keyFile>>, LocalInv(p, q, conf, rows'),
           \A r \in Procs \ {p} : proc[r].pc \in Sagas => proc[r].row # b,
           q.pc \in Sagas => q.row = b, q.pc \notin Booting,
           conf.done => Current(w, conf, keyFile),
           w.state # "destroyed" /\ w.stored.scheme = "v1" =>
              rows[b].state # "destroyed" /\ rows[b].stored.scheme = "v1"
    PROVE  PasswordsInv'
<1>1. /\ proc \in [Procs -> Local] /\ proc'[p] = q
      /\ \A r \in Procs \ {p} : proc'[r] = proc[r]
    BY DEF StartupInv, StartupTypeOK, Succeeds
<1>2. /\ rows' \in [Rows -> RowType] /\ rows'[b] = w
      /\ \A x \in Rows \ {b} : rows'[x] = rows[x]
    BY DEF PasswordsInv
<1>3. \A x \in Rows : RowInv(rows'[x], conf, keyFile)
    BY <1>2 DEF PasswordsInv
<1>4. \A r \in Procs : LocalInv(r, proc'[r], conf, rows')
    <2>. TAKE r \in Procs
    <2>1. CASE r = p
        BY <1>1, <2>1
    <2>2. CASE r # p
        <3>1. LocalInv(r, proc[r], conf, rows) /\ proc'[r] = proc[r]
            BY <1>1, <2>2 DEF PasswordsInv
        <3>2. proc[r].pc \in Sagas => proc[r].row \in Rows /\ rows'[proc[r].row] = rows[proc[r].row]
            BY <1>2, <2>2, <3>1 DEF LocalInv
        <3>. QED BY <3>1, <3>2, ZenonT(60) DEF LocalInv, Sagas, Setting
    <2>. QED BY <2>1, <2>2
<1>5. \A r1, r2 \in Procs : /\ proc'[r1].pc \in Sagas /\ proc'[r2].pc \in Sagas
                            /\ proc'[r1].row = proc'[r2].row
                            => r1 = r2
    BY <1>1, SMTT(30) DEF PasswordsInv
<1>6. conf.done => /\ \A r \in Procs : proc'[r].pc # "down" =>
                          proc'[r].env = conf.env /\ proc'[r].prev = conf.prev
                   /\ \A x \in Rows : Current(rows'[x], conf, keyFile)
    BY <1>1, <1>2 DEF PasswordsInv, Succeeds, AllOn, At
<1>7. \A r \in Procs, x \in Rows :
        /\ proc'[r].pc \in Booting /\ rows'[x].state # "destroyed" /\ rows'[x].stored.scheme = "v1"
        => proc'[r].tok = conf.tok
    BY <1>1, <1>2, ZenonT(60) DEF PasswordsInv
<1>a. conf' = conf /\ keyFile' = keyFile
    OBVIOUS
<1>8. /\ \A x \in Rows : RowInv(rows'[x], conf', keyFile')
      /\ \A r \in Procs : LocalInv(r, proc'[r], conf', rows')
    BY ONLY <1>3, <1>4, <1>a, Zenon
<1>9. conf'.done => /\ \A r \in Procs : ~(proc'[r].pc = "down") =>
                           proc'[r].env = conf'.env /\ proc'[r].prev = conf'.prev
                    /\ \A x \in Rows : Current(rows'[x], conf', keyFile')
    BY <1>6
<1>10. \A r \in Procs, x \in Rows :
        /\ proc'[r].pc \in Booting /\ rows'[x].state # "destroyed" /\ rows'[x].stored.scheme = "v1"
        => proc'[r].tok = conf'.tok
    BY <1>7
<1>. QED BY ONLY <1>2, <1>5, <1>8, <1>9, <1>10, Zenon DEF PasswordsInv, AllOn, At

\* The records the steps put in place.
LEMMA IdRecord ==
    ASSUME NEW o \in Local, NEW i \in Procs \cup {None}
    PROVE  LET q == [o EXCEPT !.pc = "key", !.iid = i, !.ver = 0] IN
           /\ q \in Local /\ q.pc = "key" /\ q.env = o.env /\ q.key = o.key
           /\ q.prev = o.prev /\ q.tok = o.tok /\ q.pw = o.pw
<1>. DEFINE q == [o EXCEPT !.pc = "key", !.iid = i, !.ver = 0]
<1>1. q \in Local
    BY Zenon DEF Local
<1>2. q.pc = "key" /\ q.env = o.env
    BY DEF Local
<1>3. q.key = o.key /\ q.prev = o.prev
    BY DEF Local
<1>4. q.tok = o.tok /\ q.pw = o.pw
    BY DEF Local
<1>. HIDE DEF q
<1>. QED BY <1>1, <1>2, <1>3, <1>4 DEF q

\* As above, for a process that has its key.
LEMMA KeyRecord ==
    ASSUME NEW o \in Local, NEW k \in Keys
    PROVE  LET q == [o EXCEPT !.pc = "prev", !.key = k] IN
           /\ q \in Local /\ q.pc = "prev" /\ q.env = o.env /\ q.key = k
           /\ q.prev = o.prev /\ q.tok = o.tok /\ q.pw = o.pw
<1>. DEFINE q == [o EXCEPT !.pc = "prev", !.key = k]
<1>1. q \in Local
    BY Zenon DEF Local
<1>2. q.pc = "prev" /\ q.env = o.env
    BY DEF Local
<1>3. q.key = k /\ q.prev = o.prev
    BY DEF Local
<1>4. q.tok = o.tok /\ q.pw = o.pw
    BY DEF Local
<1>. HIDE DEF q
<1>. QED BY <1>1, <1>2, <1>3, <1>4 DEF q

\* A process exits.
LEMMA PwExit ==
    ASSUME StartupInv, PasswordsInv, NEW p \in Procs, Exit(p), UNCHANGED <<rows, conf, keyFile>>
    PROVE  PasswordsInv'
<1>1. Down \in Local /\ Down.pc = "down" /\ Down.env = None /\ Down.pw = 0
    BY DEF Down, Local
<1>2. LocalInv(p, Down, conf, rows) /\ Down.pc \notin Sagas
    BY <1>1 DEF LocalInv, Sagas, Setting
<1>3. Succeeds(p, Down)
    BY <1>1 DEF Succeeds, Exit, Put, Booting
<1>. QED BY <1>2, <1>3, ProcOnly DEF KeyFileGrows

\* A process moves on.
LEMMA PwGo ==
    ASSUME StartupInv, PasswordsInv, NEW p \in Procs,
           NEW pc \in {"mint", "iid", "key", "link", "write", "prev", "set", "mark", "fail"},
           Go(p, pc), KeyFileGrows, UNCHANGED <<rows, conf>>,
           pc \in Booting => proc[p].pc \in Booting,
           pc \in {"link", "write"} => proc[p].env = None,
           pc = "prev" => p \notin Daemons,
           pc \in {"set", "mark"} => proc[p].pc = "rotate",
           pc = "fail" => proc[p].pc \in Setting
    PROVE  PasswordsInv'
<1>. DEFINE q == [proc[p] EXCEPT !.pc = pc]
<1>1. /\ q \in Local /\ q.pc = pc /\ q.env = proc[p].env /\ q.key = proc[p].key
      /\ q.prev = proc[p].prev /\ q.tok = proc[p].tok /\ q.row = proc[p].row /\ q.pw = proc[p].pw
    BY Facts DEF Local
<1>2. proc' = [proc EXCEPT ![p] = q]
    BY DEF Go
<1>. HIDE DEF q
<1>3. proc[p].pc # "down"
    BY DEF Booting, Sagas, Setting
<1>4. Succeeds(p, q)
    BY <1>1, <1>2, <1>3 DEF Succeeds
<1>5. LocalInv(p, proc[p], conf, rows)
    BY DEF PasswordsInv
<1>6. LocalInv(p, q, conf, rows)
    BY <1>1, <1>3, <1>5, SMTT(30) DEF LocalInv, Sagas, Setting, Booting
<1>7. q.pc \in Sagas => proc[p].pc \in Sagas /\ q.row = proc[p].row
    BY <1>1 DEF Sagas, Setting, Booting
<1>. QED BY <1>4, <1>6, <1>7, ProcOnly

\* The steps of registry.Open leave the passwords as they are.
LEMMA PwOpening ==
    ASSUME StartupInv, PasswordsInv, NEW p \in Procs, Opening(p)
    PROVE  PasswordsInv'
<1>0. UNCHANGED <<rows, conf, keyFile>> /\ KeyFileGrows
    BY Zenon DEF Opening, Open, migrateStep, MintInstanceID, ReadInstanceID, OnlyOpen, KeyFileGrows
<1>1. CASE Open(p)
    <2>. DEFINE q == [Down EXCEPT !.env = conf.env, !.prev = conf.prev, !.tok = conf.tok,
                                  !.ver = db.version, !.pc = migrate(p)]
    <2>1. /\ conf.env \in OpKeys \cup {None} /\ conf.prev \in SUBSET OpKeys /\ conf.tok \in Tokens
          /\ migrate(p) \in {"mint", "migrate"} /\ db.version \in Nat
        BY Facts DEF Conf, migrate
    <2>2. /\ q \in Local /\ q.pc \in {"mint", "migrate"} /\ q.key = None /\ q.pw = 0
          /\ q.env = conf.env /\ q.prev = conf.prev /\ q.tok = conf.tok
        <3>1. /\ q \in Local /\ q.pc = migrate(p) /\ q.key = None /\ q.pw = 0
              /\ q.env = conf.env /\ q.prev = conf.prev /\ q.tok = conf.tok
            <4>1. q \in Local
                BY <2>1, Zenon DEF Local, Down
            <4>2. q.pc = migrate(p) /\ q.key = None
                BY DEF Down
            <4>3. q.pw = 0 /\ q.env = conf.env
                BY DEF Down
            <4>4. q.prev = conf.prev /\ q.tok = conf.tok
                BY DEF Down
            <4>. HIDE DEF q
            <4>. QED BY <4>1, <4>2, <4>3, <4>4
        <3>. HIDE DEF q
        <3>. QED BY <2>1, <3>1
    <2>3. proc' = [proc EXCEPT ![p] = q]
        BY <1>1 DEF Open, Put
    <2>. HIDE DEF q
    <2>4. Succeeds(p, q) /\ LocalInv(p, q, conf, rows) /\ q.pc \notin Sagas
        <3>1. Succeeds(p, q)
            BY <2>2, <2>3 DEF Succeeds
        <3>2. q.pc \notin Sagas
            BY <2>2 DEF Sagas, Setting
        <3>. QED BY <2>2, <3>1, <3>2 DEF LocalInv, Sagas, Setting
    <2>. QED BY <1>0, <2>4, ProcOnly
<1>2. CASE migrateStep(p)
    <2>1. CASE UNCHANGED proc
        BY <1>0, <2>1 DEF PasswordsInv, AllOn, At
    <2>2. At(p, "migrate") /\ (UNCHANGED proc \/ Exit(p) \/ Go(p, "mint"))
        BY <1>2 DEF migrateStep
    <2>. QED BY <1>0, <2>1, <2>2, PwExit, PwGo DEF At, Booting
<1>3. CASE MintInstanceID(p)
    <2>1. At(p, "mint") /\ Go(p, "iid")
        BY <1>3 DEF MintInstanceID
    <2>. QED BY <1>0, <2>1, PwGo DEF At, Booting
<1>4. CASE ReadInstanceID(p)
    <2>. DEFINE q == [proc[p] EXCEPT !.pc = "key", !.iid = db.iid, !.ver = 0]
    <2>1. /\ q \in Local /\ q.pc = "key" /\ q.env = proc[p].env /\ q.key = proc[p].key
          /\ q.prev = proc[p].prev /\ q.tok = proc[p].tok /\ q.pw = proc[p].pw
        <3>1. proc[p] \in Local /\ db.iid \in Procs \cup {None}
            BY Facts, Zenon DEF FileInv
        <3>2. q = [proc[p] EXCEPT !.pc = "key", !.iid = db.iid, !.ver = 0]
            OBVIOUS
        <3>. HIDE DEF q
        <3>. QED BY <3>1, <3>2, IdRecord, Zenon
    <2>2. proc' = [proc EXCEPT ![p] = q] /\ proc[p].pc = "iid"
        BY <1>4 DEF ReadInstanceID, Put, At
    <2>. HIDE DEF q
    <2>3. LocalInv(p, proc[p], conf, rows)
        BY DEF PasswordsInv
    <2>4. Succeeds(p, q) /\ LocalInv(p, q, conf, rows) /\ q.pc \notin Sagas
        <3>1. Succeeds(p, q)
            BY <2>1, <2>2 DEF Succeeds, Booting
        <3>2. q.pc \notin Sagas
            BY <2>1 DEF Sagas, Setting
        <3>. QED BY <2>1, <2>2, <2>3, <3>1, <3>2 DEF LocalInv, Sagas, Setting
    <2>. QED BY <1>0, <2>4, ProcOnly
<1>. QED BY <1>1, <1>2, <1>3, <1>4 DEF Opening

\* A process takes the key k.
LEMMA PwTakes ==
    ASSUME StartupInv, PasswordsInv, NEW p \in Procs, NEW k \in Keys, KeyFileGrows,
           UNCHANGED <<rows, conf>>, Put(p, [proc[p] EXCEPT !.pc = "prev", !.key = k]),
           proc[p].env # None => k = proc[p].env, proc[p].pc \in {"key", "link", "write"}
    PROVE  PasswordsInv'
<1>. DEFINE q == [proc[p] EXCEPT !.pc = "prev", !.key = k]
<1>1. /\ q \in Local /\ q.pc = "prev" /\ q.env = proc[p].env /\ q.key = k
      /\ q.prev = proc[p].prev /\ q.tok = proc[p].tok /\ q.pw = proc[p].pw
    <2>1. proc[p] \in Local /\ q = [proc[p] EXCEPT !.pc = "prev", !.key = k]
        BY Facts
    <2>. HIDE DEF q
    <2>. QED BY <2>1, KeyRecord, Zenon
<1>2. proc' = [proc EXCEPT ![p] = q]
    BY DEF Put
<1>. HIDE DEF q
<1>3. LocalInv(p, proc[p], conf, rows) /\ k # None
    BY StartupAssumption DEF PasswordsInv
<1>4. Succeeds(p, q) /\ LocalInv(p, q, conf, rows) /\ q.pc \notin Sagas
    <2>1. Succeeds(p, q)
        BY <1>1, <1>2 DEF Succeeds, Booting
    <2>2. q.pc \notin Sagas
        BY <1>1 DEF Sagas, Setting
    <2>. QED BY <1>1, <1>2, <1>3, <2>1, <2>2 DEF LocalInv, Sagas, Setting
<1>. QED BY <1>4, ProcOnly

\* So do choosing, generating and loading keys.
LEMMA PwKeys ==
    ASSUME StartupInv, PasswordsInv, NEW p \in Procs,
           LoadSecretKey(p) \/ generateKeyFile(p) \/ writeExclusive(p) \/ PreviousSecretKeys(p)
    PROVE  PasswordsInv'
<1>0. /\ proc[p] \in Local /\ proc[p].env \in OpKeys \cup {None} /\ OpKeys \subseteq Keys
      /\ p \in Keys /\ LocalInv(p, proc[p], conf, rows)
    BY Facts DEF Local, Keys, PasswordsInv
<1>. USE DEF At
<1>a. None \notin Keys /\ "partial" \notin Keys
    BY StartupAssumption
<1>1. CASE LoadSecretKey(p)
    <2>0. UNCHANGED <<rows, conf, keyFile>> /\ KeyFileGrows /\ proc[p].pc = "key"
        BY <1>1 DEF LoadSecretKey, OnlyKeys, KeyFileGrows
    <2>1. CASE proc[p].env # None /\ Put(p, [proc[p] EXCEPT !.pc = "prev", !.key = proc[p].env])
        BY <1>0, <2>0, <2>1, PwTakes, Zenon
    <2>2. CASE proc[p].env = None /\ readKeyFile /\ Put(p, [proc[p] EXCEPT !.pc = "prev", !.key = keyFile])
        BY <1>0, <2>0, <2>2, PwTakes, Zenon DEF readKeyFile
    <2>3. CASE proc[p].env = None /\ Go(p, "link")
        BY <2>0, <2>3, PwGo DEF Booting
    <2>4. CASE p \notin Daemons /\ Go(p, "prev")
        BY <2>0, <2>4, PwGo DEF Booting
    <2>5. CASE Exit(p)
        BY <2>0, <2>5, PwExit
    <2>. QED BY <1>1, <2>1, <2>2, <2>3, <2>4, <2>5 DEF LoadSecretKey, Unloadable
<1>2. CASE generateKeyFile(p)
    <2>0. UNCHANGED <<rows, conf>> /\ proc[p].pc = "link" /\ proc[p].env = None
        BY <1>0, <1>2 DEF generateKeyFile, OnlyKeys, LocalInv
    <2>1. CASE keyFile = None /\ Put(p, [proc[p] EXCEPT !.pc = "prev", !.key = p])
        BY <1>0, <1>a, <2>0, <2>1, PwTakes, Zenon DEF KeyFileGrows
    <2>2. CASE keyFile = None /\ Go(p, "write")
        BY <1>a, <2>0, <2>2, PwGo DEF KeyFileGrows, Booting
    <2>3. CASE readKeyFile /\ UNCHANGED keyFile /\ Put(p, [proc[p] EXCEPT !.pc = "prev", !.key = keyFile])
        BY <1>0, <2>0, <2>3, PwTakes, Zenon DEF readKeyFile, KeyFileGrows
    <2>4. CASE UNCHANGED keyFile /\ Exit(p)
        BY <2>0, <2>4, PwExit
    <2>. QED BY <1>2, <2>1, <2>2, <2>3, <2>4 DEF generateKeyFile
<1>3. CASE writeExclusive(p)
    <2>0. /\ UNCHANGED <<rows, conf>> /\ proc[p].pc = "write" /\ proc[p].env = None
          /\ keyFile = "partial"
        BY <1>0, <1>3 DEF writeExclusive, OnlyKeys, LocalInv, StartupInv, WriterInv
    <2>1. CASE Put(p, [proc[p] EXCEPT !.pc = "prev", !.key = p])
        BY <1>0, <1>a, <2>0, <2>1, PwTakes, Zenon DEF KeyFileGrows
    <2>2. CASE UNCHANGED keyFile /\ Exit(p)
        BY <2>0, <2>2, PwExit
    <2>. QED BY <1>3, <2>1, <2>2 DEF writeExclusive
<1>4. CASE PreviousSecretKeys(p)
    <2>0. /\ UNCHANGED <<rows, conf, keyFile>> /\ Put(p, SetSecretKeys(p, proc[p], keyFile))
          /\ KeyFileGrows /\ proc[p].pc = "prev"
        BY <1>4 DEF PreviousSecretKeys, OnlyKeys, KeyFileGrows
    <2>1. CASE p \in Daemons
        <3>. DEFINE ks == newSecretBox(proc[p], keyFile)
                    q == [proc[p] EXCEPT !.pc = "reencrypt", !.keys = ks]
        <3>1. ks \in SUBSET Keys /\ proc[p].prev \subseteq ks
            BY <1>0 DEF newSecretBox, Local
        <3>. HIDE DEF ks
        <3>a. q \in Local
            BY <1>0, <3>1, Zenon DEF Local
        <3>b. q.pc = "reencrypt" /\ q.env = proc[p].env /\ q.key = proc[p].key
            BY <1>0 DEF Local
        <3>c. q.prev = proc[p].prev /\ q.tok = proc[p].tok /\ q.pw = proc[p].pw /\ q.keys = ks
            BY <1>0 DEF Local
        <3>2. proc' = [proc EXCEPT ![p] = q]
            BY <2>0, <2>1 DEF SetSecretKeys, ks, Put
        <3>. HIDE DEF q
        <3>3. Succeeds(p, q)
            BY <2>0, <3>a, <3>b, <3>c, <3>2 DEF Succeeds, Booting
        <3>4. q.pc \notin Sagas
            BY <3>b DEF Sagas, Setting
        <3>5. LocalInv(p, q, conf, rows)
            BY <1>0, <2>0, <2>1, <3>1, <3>b, <3>c, <3>4 DEF LocalInv, Sagas, Setting
        <3>. QED BY <2>0, <3>3, <3>4, <3>5, ProcOnly
    <2>2. CASE p \notin Daemons
        <3>1. proc' = [proc EXCEPT ![p] = Serve(proc[p])]
            BY <2>0, <2>2 DEF SetSecretKeys, Put
        <3>2. Succeeds(p, Serve(proc[p]))
            BY <1>0, <2>0, <3>1, ServeOK DEF Succeeds, Booting
        <3>3. Serve(proc[p]).pc \notin Sagas
            BY <1>0, ServeOK DEF Sagas, Setting
        <3>4. LocalInv(p, Serve(proc[p]), conf, rows)
            BY <1>0, <2>0, <3>3, ServeOK, Zenon DEF LocalInv, Sagas, Setting
        <3>. QED BY <2>0, <3>2, <3>3, <3>4, ProcOnly
    <2>. QED BY <2>1, <2>2
<1>. QED BY <1>1, <1>2, <1>3, <1>4

\* A row that ReencryptSecrets visits: one it can open ends up under its key.
LEMMA Reencrypted ==
    ASSUME NEW q \in Local, q.key \in Keys, NEW w \in RowType, NEW v,
           v = IF w.state # "destroyed" /\ ~isCurrent(q, w.stored) /\ decrypts(q, w.stored)
               THEN [w EXCEPT !.stored = encrypt(q, w.stored.pw)] ELSE w
    PROVE  /\ v \in RowType /\ v.state = w.state
           /\ v.role = w.role /\ v.last = w.last
           /\ v.stored.pw = w.stored.pw
           /\ \/ v.stored.scheme = "v2" /\ v.stored.key = q.key
              \/ v.stored.scheme = "none"
              \/ v.stored = w.stored /\ ~decrypts(q, w.stored)
              \/ v.stored = w.stored /\ isCurrent(q, w.stored)
              \/ v.stored = w.stored /\ w.state = "destroyed"
<1>0. w.stored \in Stored /\ w.stored.pw \in Nat
    BY DEF RowType, Stored
<1>1. CASE w.state # "destroyed" /\ ~isCurrent(q, w.stored) /\ decrypts(q, w.stored)
    <2>. DEFINE s == encrypt(q, w.stored.pw)
    <2>1. q.key # None
        BY StartupAssumption
    <2>2. /\ s \in Stored /\ s.pw = w.stored.pw
          /\ (s.scheme = "v2" /\ s.key = q.key) \/ s.scheme = "none"
        <3>1. CASE w.stored.pw = 0
            BY <1>0, <3>1 DEF encrypt, NoPassword, Stored
        <3>2. CASE w.stored.pw # 0
            BY <1>0, <2>1, <3>2 DEF encrypt, Stored
        <3>. QED BY <3>1, <3>2
    <2>3. v = [w EXCEPT !.stored = s]
        BY <1>1
    <2>. HIDE DEF s
    <2>4. v \in RowType /\ v.state = w.state /\ v.role = w.role /\ v.last = w.last /\ v.stored = s
        BY <2>2, <2>3 DEF RowType
    <2>. QED BY <2>2, <2>4
<1>2. CASE ~(w.state # "destroyed" /\ ~isCurrent(q, w.stored) /\ decrypts(q, w.stored))
    BY <1>2
<1>. QED BY <1>1, <1>2

\* Re-encryption keeps every password, and readable.
LEMMA PwReencrypt ==
    ASSUME StartupInv, PasswordsInv, NEW p \in Procs, ReencryptSecrets(p)
    PROVE  PasswordsInv'
<1>. DEFINE q == proc[p]
<1>0. /\ proc \in [Procs -> Local] /\ q \in Local /\ q.pc = "reencrypt" /\ UNCHANGED keyFile
      /\ rows \in [Rows -> RowType] /\ conf \in Conf
      /\ q.env = None /\ q.key # None => q.key = keyFile
    BY Facts DEF StartupInv, StartupTypeOK, PasswordsInv, ReencryptSecrets, At
<1>1. CASE Exit(p) /\ UNCHANGED <<rows, conf>>
    BY <1>0, <1>1, PwExit
<1>2. CASE /\ Put(p, Serve(q))
           /\ rows' = [b \in Rows |->
                IF /\ rows[b].state # "destroyed"
                   /\ ~isCurrent(q, rows[b].stored) /\ decrypts(q, rows[b].stored)
                THEN [rows[b] EXCEPT !.stored = encrypt(q, @.pw)] ELSE rows[b]]
           /\ conf' = [conf EXCEPT !.done = @ \/ AllOn(conf)]
    <2>1. LocalInv(p, q, conf, rows)
        BY DEF PasswordsInv
    <2>2. /\ q.key \in Keys /\ q.key \in {conf.env, keyFile} \cup conf.prev
          /\ AllOn(conf) => q.key \in {conf.env, keyFile} /\ q.prev = conf.prev
        <3>1. p \in Daemons /\ q.key # None /\ q.env \in {None, conf.env} \cup conf.prev
              /\ (q.env # None => q.key \in {None, q.env})
            BY <1>0, <2>1 DEF LocalInv
        <3>2. q.key \in Keys
            BY <1>0, <3>1 DEF Local
        <3>3. AllOn(conf) => q.env = conf.env /\ q.prev = conf.prev
            BY <1>0 DEF AllOn, At
        <3>. QED BY <1>0, <3>1, <3>2, <3>3
    <2>3. /\ conf'.env = conf.env /\ conf'.prev = conf.prev /\ conf'.tok = conf.tok
          /\ conf'.done => AllOn(conf)
        <3>1. PICK d \in BOOLEAN : (d <=> conf.done \/ AllOn(conf)) /\ conf' = [conf EXCEPT !.done = d]
            <4>1. conf' = [conf EXCEPT !.done = conf.done \/ AllOn(conf)]
                BY <1>2
            <4>2. (conf.done \/ AllOn(conf)) \in BOOLEAN
                OBVIOUS
            <4>. QED BY <4>1, <4>2, Zenon
        <3>2. conf.done => AllOn(conf)
            BY DEF PasswordsInv
        <3>3. /\ conf'.env = conf.env /\ conf'.prev = conf.prev /\ conf'.tok = conf.tok
              /\ conf'.done <=> d
            BY <1>0, <3>1 DEF Conf
        <3>. QED BY <3>1, <3>2, <3>3
    <2>4. ASSUME NEW b \in Rows
          PROVE  /\ rows'[b] \in RowType /\ rows'[b].state = rows[b].state
                 /\ rows'[b].role = rows[b].role /\ rows'[b].last = rows[b].last
                 /\ rows'[b].stored.pw = rows[b].stored.pw
                 /\ \/ rows'[b].stored.scheme = "v2" /\ rows'[b].stored.key = q.key
                    \/ rows'[b].stored.scheme = "none"
                    \/ rows'[b].stored = rows[b].stored /\ ~decrypts(q, rows[b].stored)
                    \/ rows'[b].stored = rows[b].stored /\ isCurrent(q, rows[b].stored)
                    \/ rows'[b].stored = rows[b].stored /\ rows[b].state = "destroyed"
        <3>1. rows'[b] = IF rows[b].state # "destroyed" /\ ~isCurrent(q, rows[b].stored)
                              /\ decrypts(q, rows[b].stored)
                         THEN [rows[b] EXCEPT !.stored = encrypt(q, rows[b].stored.pw)] ELSE rows[b]
            BY <1>0, <1>2 DEF RowType
        <3>2. rows[b] \in RowType
            BY <1>0
        <3>. HIDE DEF q
        <3>3. q \in Local /\ q.key \in Keys
            BY <1>0, <2>2
        <3>. QED BY <3>1, <3>2, <3>3, Reencrypted, Zenon
    <2>5. \A b \in Rows : RowInv(rows'[b], conf', keyFile')
        <3>. TAKE b \in Rows
        <3>1. RowInv(rows[b], conf, keyFile)
            BY DEF PasswordsInv
        <3>. HIDE DEF q
        <3>. QED BY <1>0, <2>2, <2>3, <2>4, <3>1 DEF RowInv
    <2>6. \A r \in Procs : LocalInv(r, proc'[r], conf', rows')
        <3>. TAKE r \in Procs
        <3>1. CASE r = p
            <4>1. proc'[r] = Serve(q)
                BY <1>0, <1>2, <3>1 DEF Put
            <4>2. Serve(q).pc = "up" /\ Serve(q).env = q.env /\ Serve(q).key = q.key /\ Serve(q).pw = q.pw
                BY <1>0, ServeOK
            <4>. QED BY <1>0, <2>1, <2>3, <3>1, <4>1, <4>2 DEF LocalInv, Sagas, Setting
        <3>2. CASE r # p
            <4>1. proc'[r] = proc[r] /\ LocalInv(r, proc[r], conf, rows)
                BY <1>0, <1>2, <3>2 DEF Put, PasswordsInv
            <4>2. \A b \in Rows : /\ rows'[b].state = rows[b].state /\ rows'[b].role = rows[b].role
                                 /\ rows'[b].last = rows[b].last
                                 /\ rows'[b].stored.pw = rows[b].stored.pw
                BY <2>4
            <4>. QED BY <2>3, <4>1, <4>2 DEF LocalInv, Sagas, Setting
        <3>. QED BY <3>1, <3>2
    <2>7. ASSUME AllOn(conf), NEW b \in Rows
          PROVE  Current(rows'[b], conf', keyFile')
        <3>1. RowInv(rows[b], conf, keyFile)
            BY DEF PasswordsInv
        <3>2. SUFFICES ASSUME rows'[b].state # "destroyed"
                       PROVE  /\ rows'[b].stored.scheme # "v1"
                              /\ rows'[b].stored.scheme = "v2" => rows'[b].stored.key \in {conf.env, keyFile}
            BY <1>0, <2>3 DEF Current
        <3>3. rows[b].state # "destroyed" /\ (rows[b].stored.scheme = "v1" => q.tok = conf.tok)
            BY <1>0, <2>4, <3>2 DEF PasswordsInv, Booting
        <3>4. q.prev \subseteq q.keys /\ q.key # None
            BY <1>0, <2>1, <2>2, StartupAssumption DEF LocalInv
        <3>5. CASE rows'[b].stored = rows[b].stored /\ ~decrypts(q, rows[b].stored)
            <4>. HIDE DEF q
            <4>. QED BY <2>2, <2>7, <3>1, <3>3, <3>4, <3>5 DEF decrypts, RowInv
        <3>6. CASE rows'[b].stored = rows[b].stored /\ isCurrent(q, rows[b].stored)
            <4>. HIDE DEF q
            <4>. QED BY <2>2, <2>7, <3>4, <3>6 DEF isCurrent
        <3>. QED BY <2>2, <2>4, <2>7, <3>3, <3>5, <3>6
    <2>8. conf'.done => /\ \A r \in Procs : ~(proc'[r].pc = "down") =>
                               proc'[r].env = conf'.env /\ proc'[r].prev = conf'.prev
                        /\ \A b \in Rows : Current(rows'[b], conf', keyFile')
        <3>1. ASSUME AllOn(conf), NEW r \in Procs, ~(proc'[r].pc = "down")
              PROVE  proc'[r].env = conf.env /\ proc'[r].prev = conf.prev
            <4>1. CASE r = p
                BY <1>0, <1>2, <3>1, <4>1, ServeOK DEF AllOn, At, Put
            <4>2. CASE r # p
                BY <1>0, <1>2, <3>1, <4>2 DEF AllOn, At, Put
            <4>. QED BY <4>1, <4>2
        <3>. QED BY <2>3, <2>7, <3>1
    <2>9. proc' = [proc EXCEPT ![p] = Serve(q)] /\ Serve(q).pc = "up"
        BY <1>0, <1>2, ServeOK DEF Put
    <2>10. \A r1, r2 \in Procs : /\ proc'[r1].pc \in Sagas /\ proc'[r2].pc \in Sagas
                                /\ proc'[r1].row = proc'[r2].row
                                => r1 = r2
        BY <1>0, <2>9 DEF PasswordsInv, Sagas, Setting
    <2>11. \A r \in Procs, b \in Rows :
            /\ proc'[r].pc \in Booting /\ rows'[b].state # "destroyed" /\ rows'[b].stored.scheme = "v1"
            => proc'[r].tok = conf'.tok
        <3>1. \A b \in Rows : /\ rows'[b].state # "destroyed" /\ rows'[b].stored.scheme = "v1"
                             => rows[b].state # "destroyed" /\ rows[b].stored.scheme = "v1"
            BY <2>4
        <3>2. \A r \in Procs : proc'[r].pc \in Booting => proc'[r] = proc[r]
            BY <1>0, <2>9 DEF Booting
        <3>. QED BY <2>3, <3>1, <3>2 DEF PasswordsInv
    <2>12. rows' \in [Rows -> RowType]
        <3>1. \A b \in Rows : rows'[b] \in RowType
            BY <2>4
        <3>2. rows' = [b \in Rows |-> rows'[b]]
            BY <1>2, Zenon
        <3>. QED BY <3>1, <3>2
    <2>. QED BY ONLY <2>5, <2>6, <2>8, <2>10, <2>11, <2>12, Zenon DEF PasswordsInv, AllOn, At
<1>. QED BY <1>1, <1>2 DEF ReencryptSecrets

\* What a serving process writes for password n: under the key every process
\* started now would have, and under the current one once all are on it.
LEMMA Encrypted ==
    ASSUME StartupInv, PasswordsInv, NEW p \in Procs, proc[p].pc # "down", NEW n \in Nat, NEW s,
           s = encrypt(proc[p], n)
    PROVE  /\ s \in Stored /\ s.pw = n /\ s.scheme # "v1"
           /\ s.scheme = "v2" => s.key \in ({conf.env, keyFile} \cup conf.prev) \cap Keys
           /\ s.scheme = "v2" /\ conf.done => s.key \in {conf.env, keyFile}
<1>1. /\ proc[p].key \in Keys \cup {None}
      /\ proc[p].env = None /\ proc[p].key # None => proc[p].key = keyFile
    BY Facts DEF Local
<1>2. /\ proc[p].env # None => proc[p].key \in {None, proc[p].env}
      /\ proc[p].env \in {None, conf.env} \cup conf.prev
    BY DEF PasswordsInv, LocalInv
<1>3. conf.done => proc[p].env = conf.env
    BY DEF PasswordsInv, AllOn, At
<1>4. CASE n = 0
    BY <1>4 DEF encrypt, NoPassword, Stored
<1>5. CASE n # 0 /\ proc[p].key = None
    BY <1>5 DEF encrypt, Plain, Stored
<1>6. CASE n # 0 /\ proc[p].key # None
    <2>1. s = [scheme |-> "v2", key |-> proc[p].key, pw |-> n]
        BY <1>6 DEF encrypt
    <2>. QED BY <1>1, <1>2, <1>3, <1>6, <2>1 DEF Stored
<1>. QED BY <1>4, <1>5, <1>6

\* A process leaves its saga.
LEMMA PwLeave ==
    ASSUME StartupInv, PasswordsInv, NEW p \in Procs, proc[p].pc \in Sagas \cup {"claim", "recover"},
           Put(p, Leave(proc[p])), UNCHANGED <<conf, keyFile>>
    PROVE  /\ Succeeds(p, Leave(proc[p])) /\ Leave(proc[p]).pc = "up"
           /\ LocalInv(p, Leave(proc[p]), conf, rows) /\ LocalInv(p, Leave(proc[p]), conf, rows')
<1>. DEFINE q == Leave(proc[p])
<1>1. /\ q \in Local /\ q.pc = "up" /\ q.env = proc[p].env /\ q.key = proc[p].key
      /\ q.prev = proc[p].prev
    BY Facts, LeaveOK
<1>2. q.pw = 0
    BY Facts DEF Leave, Local
<1>3. LocalInv(p, proc[p], conf, rows) /\ proc[p].pc # "down"
    BY DEF PasswordsInv, Sagas, Setting
<1>4. proc' = [proc EXCEPT ![p] = q]
    BY DEF Put
<1>. HIDE DEF q
<1>5. Succeeds(p, q)
    BY <1>1, <1>3, <1>4 DEF Succeeds, Booting
<1>6. LocalInv(p, q, conf, rows) /\ LocalInv(p, q, conf, rows')
    BY <1>1, <1>2, <1>3 DEF LocalInv, Sagas, Setting
<1>. QED BY <1>1, <1>5, <1>6 DEF q

\* The steps of a saga that sets a branch's password.
LEMMA PwRotating ==
    ASSUME StartupInv, PasswordsInv, NEW p \in Procs, Rotating(p)
    PROVE  PasswordsInv'
<1>. DEFINE o == proc[p]
<1>0. /\ UNCHANGED <<conf, keyFile>> /\ KeyFileGrows /\ o \in Local /\ LocalInv(p, o, conf, rows)
      /\ rows \in [Rows -> RowType] /\ mints \in Nat
    <2>1. OnlyRows
        BY Zenon DEF Rotating, ReadRow, CreateRow, ClaimRow, rotateBranchCredentials,
            SetBranchPassword, EndSaga
    <2>. QED BY <2>1, Facts, Zenon DEF OnlyRows, KeyFileGrows, PasswordsInv
<1>. USE DEF At
<1>1. ASSUME NEW b \in Rows, ReadRow(p, b)
      PROVE  PasswordsInv'
    <2>1. PICK had \in BOOLEAN : /\ Put(p, [o EXCEPT !.pc = "claim", !.row = b, !.had = had])
                                 /\ o.pc = "up" /\ UNCHANGED rows
        <3>1. (rows[b].stored # NoPassword) \in BOOLEAN
            OBVIOUS
        <3>. QED BY <1>1, <3>1, Zenon DEF ReadRow
    <2>. DEFINE q == [o EXCEPT !.pc = "claim", !.row = b, !.had = had]
    <2>2. q \in Local
        BY <1>0, Zenon DEF Local
    <2>3. q.pc = "claim" /\ q.row = b /\ q.env = o.env
        BY <1>0 DEF Local
    <2>4. q.key = o.key /\ q.prev = o.prev /\ q.pw = o.pw
        BY <1>0 DEF Local
    <2>5. proc' = [proc EXCEPT ![p] = q]
        BY <2>1 DEF Put
    <2>. HIDE DEF q
    <2>6. Succeeds(p, q)
        BY <2>1, <2>2, <2>3, <2>4, <2>5 DEF Succeeds, Booting
    <2>7. q.pc \notin Sagas /\ LocalInv(p, q, conf, rows)
        BY <1>0, <2>1, <2>3, <2>4 DEF LocalInv, Sagas, Setting
    <2>. QED BY <1>0, <2>1, <2>6, <2>7, ProcOnly
<1>2. ASSUME NEW b \in Rows, CreateRow(p, b)
      PROVE  PasswordsInv'
    <2>. DEFINE q == [o EXCEPT !.pc = "rotate", !.row = b, !.had = FALSE]
                w == [rows[b] EXCEPT !.state = "busy"]
    <2>1. /\ proc' = [proc EXCEPT ![p] = q] /\ o.pc = "up" /\ rows[b].state = "absent"
          /\ rows' = [rows EXCEPT ![b] = w]
        BY <1>2 DEF CreateRow, Put, Move
    <2>2. q \in Local
        BY <1>0, Zenon DEF Local
    <2>3. q.pc = "rotate" /\ q.row = b /\ q.env = o.env
        BY <1>0 DEF Local
    <2>4. q.key = o.key /\ q.prev = o.prev /\ q.pw = o.pw
        BY <1>0 DEF Local
    <2>5. /\ w \in RowType /\ w.state = "busy" /\ w.role = rows[b].role /\ w.last = rows[b].last
          /\ w.stored = rows[b].stored
        BY <1>0 DEF RowType
    <2>6. rows'[b] = w
        BY <1>0, <2>1
    <2>. HIDE DEF q, w
    <2>7. Succeeds(p, q)
        BY <2>1, <2>2, <2>3, <2>4 DEF Succeeds, Booting
    <2>8. RowInv(rows[b], conf, keyFile) /\ (conf.done => Current(rows[b], conf, keyFile))
        BY DEF PasswordsInv
    <2>9. RowInv(w, conf, keyFile) /\ (conf.done => Current(w, conf, keyFile))
          /\ w.role = 0 /\ w.last = "open"
        BY <2>1, <2>5, <2>8 DEF RowInv, Current
    <2>10. LocalInv(p, q, conf, rows')
        BY <1>0, <2>1, <2>3, <2>4, <2>5, <2>6, <2>9, ZenonT(30) DEF LocalInv, Sagas, Setting
    <2>11. \A r \in Procs \ {p} : proc[r].pc \in Sagas => proc[r].row # b
        BY <2>1 DEF PasswordsInv, LocalInv
    <2>. QED BY <1>0, <2>1, <2>3, <2>5, <2>7, <2>9, <2>10, <2>11, RowStep, Zenon DEF Booting
<1>3. CASE ClaimRow(p)
    <2>0. o.pc = "claim" /\ o.row \in Rows
        BY <1>0, <1>3 DEF ClaimRow, LocalInv
    <2>1. CASE rows[o.row].state \in {"ready", "failed"}
        <3>. DEFINE b == o.row
                    q == [o EXCEPT !.pc = "rotate"]
                    w == [rows[b] EXCEPT !.state = "busy", !.role = 0, !.vol = "gone", !.last = "open"]
        <3>1. /\ proc' = [proc EXCEPT ![p] = q] /\ rows' = [rows EXCEPT ![b] = w]
            BY <1>3, <2>1 DEF ClaimRow, Go
        <3>2. q \in Local
            BY <1>0 DEF Local
        <3>3. q.pc = "rotate" /\ q.row = b /\ q.env = o.env
            BY <1>0 DEF Local
        <3>4. q.key = o.key /\ q.prev = o.prev /\ q.pw = o.pw
            BY <1>0 DEF Local
        <3>5. /\ w \in RowType /\ w.state = "busy" /\ w.role = 0 /\ w.last = "open"
              /\ w.stored = rows[b].stored
            BY <1>0, <2>0, ZenonT(30) DEF RowType
        <3>6. rows'[b] = w
            BY <1>0, <2>0, <3>1, Zenon
        <3>. HIDE DEF q, w
        <3>7. Succeeds(p, q)
            BY <2>0, <3>1, <3>2, <3>3, <3>4 DEF Succeeds, Booting
        <3>8. RowInv(rows[b], conf, keyFile) /\ (conf.done => Current(rows[b], conf, keyFile))
            BY <2>0 DEF PasswordsInv
        <3>9. RowInv(w, conf, keyFile) /\ (conf.done => Current(w, conf, keyFile))
            BY <2>1, <3>5, <3>8, Zenon DEF RowInv, Current
        <3>10. LocalInv(p, q, conf, rows')
            BY <1>0, <2>0, <3>3, <3>4, <3>5, <3>6 DEF LocalInv, Sagas, Setting
        <3>11. \A r \in Procs \ {p} : proc[r].pc \in Sagas => proc[r].row # b
            BY <2>1 DEF PasswordsInv, LocalInv
        <3>. QED BY <1>0, <2>0, <2>1, <3>1, <3>3, <3>5, <3>7, <3>9, <3>10, <3>11, RowStep, Zenon DEF Booting
    <2>2. CASE rows[o.row].state \notin {"ready", "failed"}
        <3>1. Put(p, Leave(o)) /\ UNCHANGED rows
            BY <1>3, <2>2 DEF ClaimRow
        <3>2. Leave(o).pc = "up" /\ Succeeds(p, Leave(o)) /\ LocalInv(p, Leave(o), conf, rows)
            BY <1>0, <2>0, <3>1, PwLeave
        <3>. QED BY <1>0, <3>1, <3>2, ProcOnly DEF Sagas, Setting
    <2>. QED BY <2>1, <2>2
\* The steps of a saga that owns its row b.
<1>a. ASSUME o.pc \in Sagas
      PROVE  /\ o.row \in Rows /\ rows[o.row].state = "busy" /\ o.pc # "down"
             /\ o.pc \in Setting => rows[o.row].last = "open"
             /\ \A r \in Procs \ {p} : proc[r].pc \in Sagas => proc[r].row # o.row
             /\ RowInv(rows[o.row], conf, keyFile)
             /\ conf.done => Current(rows[o.row], conf, keyFile)
    <2>1. /\ o.row \in Rows /\ rows[o.row].state = "busy" /\ o.pc # "down"
          /\ o.pc \in Setting => rows[o.row].last = "open"
        BY <1>0, <1>a DEF LocalInv, Sagas, Setting
    <2>. QED BY <1>a, <2>1 DEF PasswordsInv
<1>4. CASE rotateBranchCredentials(p)
    <2>0. o.pc = "rotate" /\ o.pc \in Sagas /\ o.pc \in Setting
        BY <1>4 DEF rotateBranchCredentials, Sagas, Setting
    <2>1. CASE /\ rows' = [rows EXCEPT ![o.row].role = mints + 1]
               /\ Put(p, [o EXCEPT !.pc = "set", !.pw = mints + 1])
        <3>. DEFINE b == o.row
                    n == mints + 1
                    q == [o EXCEPT !.pc = "set", !.pw = n]
                    w == [rows[b] EXCEPT !.role = n]
        <3>0. n \in Nat /\ b \in Rows
            BY <1>0, <1>a, <2>0, SMTT(30)
        <3>1. /\ proc' = [proc EXCEPT ![p] = q] /\ rows' = [rows EXCEPT ![b] = w]
            BY <2>1 DEF Put
        <3>. HIDE DEF n
        <3>2. q \in Local
            BY <1>0, <3>0, Zenon DEF Local
        <3>3. q.pc = "set" /\ q.row = b /\ q.env = o.env
            BY <1>0 DEF Local
        <3>4. q.key = o.key /\ q.prev = o.prev /\ q.pw = n
            BY <1>0 DEF Local
        <3>5. /\ w \in RowType /\ w.state = rows[b].state /\ w.role = n /\ w.last = rows[b].last
              /\ w.stored = rows[b].stored
            BY <1>0, <3>0 DEF RowType
        <3>6. rows'[b] = w
            BY <1>0, <3>0, <3>1
        <3>. HIDE DEF q, w
        <3>7. Succeeds(p, q)
            BY <2>0, <3>1, <3>2, <3>3, <3>4 DEF Succeeds, Booting
        <3>8. RowInv(w, conf, keyFile) /\ (conf.done => Current(w, conf, keyFile))
            BY <1>a, <2>0, <3>5, Zenon DEF RowInv, Current
        <3>9. LocalInv(p, q, conf, rows')
            BY <1>0, <1>a, <2>0, <3>0, <3>3, <3>4, <3>5, <3>6, Zenon DEF LocalInv, Sagas, Setting
        <3>10. \A r \in Procs \ {p} : proc[r].pc \in Sagas => proc[r].row # b
            BY <1>a, <2>0
        <3>. QED BY <1>0, <3>0, <3>1, <3>3, <3>5, <3>7, <3>8, <3>9, <3>10, RowStep, Zenon DEF Booting
    <2>2. CASE UNCHANGED rows /\ \E pc \in {"set", "mark", "fail"} : Go(p, pc)
        BY <1>0, <2>0, <2>2, PwGo DEF Booting
    <2>. QED BY <1>4, <2>1, <2>2 DEF rotateBranchCredentials
<1>5. CASE SetBranchPassword(p)
    <2>0. o.pc = "set" /\ o.pc \in Sagas /\ o.pc \in Setting
        BY <1>5 DEF SetBranchPassword, Sagas, Setting
    <2>1. CASE Go(p, "mark") /\ rows' = [rows EXCEPT ![o.row].stored = encrypt(o, o.pw)]
        <3>. DEFINE b == o.row
                    s == encrypt(o, o.pw)
                    q == [o EXCEPT !.pc = "mark"]
                    w == [rows[b] EXCEPT !.stored = s]
        <3>0. /\ s \in Stored /\ s.pw = o.pw /\ s.scheme # "v1" /\ b \in Rows
              /\ s.scheme = "v2" => s.key \in ({conf.env, keyFile} \cup conf.prev) \cap Keys
              /\ s.scheme = "v2" /\ conf.done => s.key \in {conf.env, keyFile}
            <4>1. o.pw \in Nat /\ o.pc # "down" /\ b \in Rows
                BY <1>0, <1>a, <2>0 DEF Local
            <4>. QED BY <4>1, Encrypted
        <3>1. /\ proc' = [proc EXCEPT ![p] = q] /\ rows' = [rows EXCEPT ![b] = w]
            BY <2>1 DEF Go
        <3>. HIDE DEF s
        <3>2. q \in Local
            BY <1>0 DEF Local
        <3>3. q.pc = "mark" /\ q.row = b /\ q.env = o.env
            BY <1>0 DEF Local
        <3>4. q.key = o.key /\ q.prev = o.prev /\ q.pw = o.pw
            BY <1>0 DEF Local
        <3>5. /\ w \in RowType /\ w.state = rows[b].state /\ w.role = rows[b].role
              /\ w.last = rows[b].last /\ w.stored = s
            BY <1>0, <3>0 DEF RowType
        <3>6. rows'[b] = w
            BY <1>0, <3>0, <3>1
        <3>. HIDE DEF q, w
        <3>7. Succeeds(p, q)
            BY <2>0, <3>1, <3>2, <3>3, <3>4 DEF Succeeds, Booting
        <3>8. RowInv(w, conf, keyFile) /\ (conf.done => Current(w, conf, keyFile))
            BY <1>a, <2>0, <3>0, <3>5, ZenonT(30) DEF RowInv, Current
        <3>9. LocalInv(p, q, conf, rows')
            BY <1>0, <1>a, <2>0, <3>0, <3>3, <3>4, <3>5, <3>6, Zenon DEF LocalInv, Sagas, Setting
        <3>10. \A r \in Procs \ {p} : proc[r].pc \in Sagas => proc[r].row # b
            BY <1>a, <2>0
        <3>. QED BY <1>0, <3>0, <3>1, <3>3, <3>5, <3>7, <3>8, <3>9, <3>10, RowStep, Zenon DEF Booting
    <2>2. CASE UNCHANGED rows /\ Go(p, "fail")
        BY <1>0, <2>0, <2>2, PwGo DEF Booting
    <2>. QED BY <1>5, <2>1, <2>2 DEF SetBranchPassword
<1>6. CASE EndSaga(p)
    <2>0. o.pc \in {"mark", "fail"} /\ o.pc \in Sagas /\ Put(p, Leave(o))
        BY <1>6 DEF EndSaga, Sagas, Setting
    <2>. DEFINE b == o.row
    <2>1. PICK w : /\ rows' = [rows EXCEPT ![b] = w] /\ w \in RowType
                   /\ w.state \in {"ready", "failed"} /\ w.last \in {rows[b].last, "through"}
                   /\ w.role = rows[b].role /\ w.stored = rows[b].stored
                   /\ w.last = "through" => o.pc = "mark" \/ rows[b].last = "through"
        <3>0. rows[b] \in RowType
            BY <1>0, <1>a, <2>0
        <3>1. CASE o.pc = "mark"
            <4>. DEFINE w == [rows[b] EXCEPT !.state = "ready", !.last = "through"]
            <4>1. rows' = [rows EXCEPT ![b] = w]
                BY <1>6, <1>a, <2>0, <3>1 DEF EndSaga
            <4>2. /\ w \in RowType /\ w.state = "ready" /\ w.last = "through"
                  /\ w.role = rows[b].role /\ w.stored = rows[b].stored
                BY <3>0, Zenon DEF RowType
            <4>. HIDE DEF w
            <4>. QED BY <3>1, <4>1, <4>2, Zenon
        <3>2. CASE o.pc = "fail"
            <4>1. PICK vol \in {"kept", "gone"} : FailRow(b, vol)
                BY <1>6, <1>a, <2>0, <3>2 DEF EndSaga
            <4>. DEFINE w == [rows[b] EXCEPT !.state = "failed", !.vol = vol]
            <4>2. rows' = [rows EXCEPT ![b] = w]
                BY <4>1 DEF FailRow
            <4>3. /\ w \in RowType /\ w.state = "failed" /\ w.last = rows[b].last
                  /\ w.role = rows[b].role /\ w.stored = rows[b].stored
                BY <3>0, Zenon DEF RowType
            <4>. HIDE DEF w
            <4>. QED BY <3>2, <4>2, <4>3, Zenon
        <3>. QED BY <2>0, <3>1, <3>2
    <2>2. b \in Rows
        BY <1>a, <2>0
    <2>4. Leave(o).pc = "up" /\ Succeeds(p, Leave(o)) /\ LocalInv(p, Leave(o), conf, rows')
        BY <1>0, <2>0, PwLeave
    <2>5. RowInv(w, conf, keyFile) /\ (conf.done => Current(w, conf, keyFile))
        BY <1>0, <1>a, <2>0, <2>1, <2>2, Zenon DEF RowInv, Current, LocalInv
    <2>6. \A r \in Procs \ {p} : proc[r].pc \in Sagas => proc[r].row # b
        BY <1>a, <2>0
    <2>7. /\ w.state # "destroyed" /\ w.stored.scheme = "v1" =>
                rows[b].state # "destroyed" /\ rows[b].stored.scheme = "v1"
          /\ Leave(o).pc \notin Booting \cup Sagas
        BY <1>a, <2>0, <2>1, <2>4, Zenon DEF Booting, Sagas, Setting
    <2>. QED BY <1>0, <2>1, <2>2, <2>4, <2>5, <2>6, <2>7, RowStep, Zenon
<1>. QED BY <1>1, <1>2, <1>3, <1>4, <1>5, <1>6 DEF Rotating

\* The steps of a recover, which leaves the password on the row alone.
LEMMA PwRecovering ==
    ASSUME StartupInv, PasswordsInv, NEW p \in Procs, Recovering(p)
    PROVE  PasswordsInv'
<1>. DEFINE o == proc[p]
<1>0. /\ UNCHANGED <<conf, keyFile>> /\ KeyFileGrows /\ o \in Local /\ LocalInv(p, o, conf, rows)
      /\ rows \in [Rows -> RowType]
    <2>1. OnlyRows
        BY Zenon DEF Recovering, RecoverBranch, ClaimFailed, restartAndMarkReady
    <2>. QED BY <2>1, Facts, Zenon DEF OnlyRows, KeyFileGrows, PasswordsInv
<1>. USE DEF At
<1>1. ASSUME NEW b \in Rows, RecoverBranch(p, b)
      PROVE  PasswordsInv'
    <2>. DEFINE q == [o EXCEPT !.pc = "recover", !.row = b]
    <2>1. proc' = [proc EXCEPT ![p] = q] /\ o.pc = "up" /\ UNCHANGED rows
        BY <1>1 DEF RecoverBranch, Put
    <2>2. q \in Local
        BY <1>0, Zenon DEF Local
    <2>3. q.pc = "recover" /\ q.row = b /\ q.env = o.env
        BY <1>0 DEF Local
    <2>4. q.key = o.key /\ q.prev = o.prev /\ q.pw = o.pw
        BY <1>0 DEF Local
    <2>. HIDE DEF q
    <2>6. Succeeds(p, q)
        BY <2>1, <2>2, <2>3, <2>4 DEF Succeeds, Booting
    <2>7. q.pc \notin Sagas /\ LocalInv(p, q, conf, rows)
        BY <1>0, <2>1, <2>3, <2>4 DEF LocalInv, Sagas, Setting
    <2>. QED BY <1>0, <2>1, <2>6, <2>7, ProcOnly
<1>2. CASE ClaimFailed(p)
    <2>0. o.pc = "recover" /\ o.row \in Rows
        BY <1>0, <1>2 DEF ClaimFailed, LocalInv
    <2>1. CASE rows[o.row].state = "failed"
        <3>. DEFINE b == o.row
                    n == IF rows[b].vol = "kept" THEN rows[b].role ELSE 0
                    q == [o EXCEPT !.pc = "restart"]
                    w == [rows[b] EXCEPT !.state = "busy", !.vol = "kept", !.role = n]
        <3>0. rows[b] \in RowType /\ n \in Nat /\ n \in {0, rows[b].role}
            BY <1>0, <2>0 DEF RowType
        <3>1. /\ proc' = [proc EXCEPT ![p] = q] /\ rows' = [rows EXCEPT ![b] = w]
            <4>1. /\ Go(p, "restart")
                  /\ rows' = [rows EXCEPT ![b] = [rows[b] EXCEPT !.state = "busy", !.vol = "kept",
                                !.role = IF rows[b].vol = "kept" THEN rows[b].role ELSE 0]]
                BY <1>2, <2>1, Zenon DEF ClaimFailed
            <4>. QED BY <4>1 DEF Go
        <3>. HIDE DEF n
        <3>2. q \in Local
            BY <1>0 DEF Local
        <3>3. q.pc = "restart" /\ q.row = b /\ q.env = o.env
            BY <1>0 DEF Local
        <3>4. q.key = o.key /\ q.prev = o.prev /\ q.pw = o.pw
            BY <1>0 DEF Local
        <3>5. /\ w \in RowType /\ w.state = "busy" /\ w.role = n /\ w.last = rows[b].last
              /\ w.stored = rows[b].stored
            BY <3>0, Zenon DEF RowType
        <3>6. rows'[b] = w
            BY <1>0, <2>0, <3>1, Zenon
        <3>. HIDE DEF q, w
        <3>7. Succeeds(p, q)
            BY <2>0, <3>1, <3>2, <3>3, <3>4 DEF Succeeds, Booting
        <3>8. RowInv(rows[b], conf, keyFile) /\ (conf.done => Current(rows[b], conf, keyFile))
            BY <2>0 DEF PasswordsInv
        <3>9. RowInv(w, conf, keyFile) /\ (conf.done => Current(w, conf, keyFile))
            BY <2>1, <3>0, <3>5, <3>8, Zenon DEF RowInv, Current
        <3>10. LocalInv(p, q, conf, rows')
            BY <1>0, <2>0, <3>3, <3>4, <3>5, <3>6 DEF LocalInv, Sagas, Setting
        <3>11. \A r \in Procs \ {p} : proc[r].pc \in Sagas => proc[r].row # b
            BY <2>1 DEF PasswordsInv, LocalInv
        <3>. QED BY <1>0, <2>0, <2>1, <3>1, <3>3, <3>5, <3>7, <3>9, <3>10, <3>11, RowStep, Zenon DEF Booting
    <2>2. CASE rows[o.row].state # "failed"
        <3>1. Put(p, Leave(o)) /\ UNCHANGED rows
            BY <1>2, <2>2 DEF ClaimFailed
        <3>2. Leave(o).pc = "up" /\ Succeeds(p, Leave(o)) /\ LocalInv(p, Leave(o), conf, rows)
            BY <1>0, <2>0, <3>1, PwLeave
        <3>. QED BY <1>0, <3>1, <3>2, ProcOnly DEF Sagas, Setting
    <2>. QED BY <2>1, <2>2
<1>3. CASE restartAndMarkReady(p)
    <2>. DEFINE b == o.row
    <2>0. o.pc = "restart" /\ o.pc \in Sagas /\ Put(p, Leave(o))
        BY <1>3 DEF restartAndMarkReady, Sagas
    <2>1. b \in Rows /\ rows[b].state = "busy" /\ RowInv(rows[b], conf, keyFile)
          /\ (conf.done => Current(rows[b], conf, keyFile))
        <3>1. b \in Rows /\ rows[b].state = "busy"
            BY <1>0, <2>0 DEF LocalInv
        <3>. QED BY <3>1 DEF PasswordsInv
    <2>2. PICK st \in {"ready", "failed"} : Move(b, st)
        BY <1>3, <2>1 DEF restartAndMarkReady
    <2>. DEFINE w == [rows[b] EXCEPT !.state = st]
    <2>3. rows' = [rows EXCEPT ![b] = w]
        BY <2>2 DEF Move
    <2>4. /\ w \in RowType /\ w.state = st /\ w.role = rows[b].role /\ w.last = rows[b].last
          /\ w.stored = rows[b].stored
        BY <1>0, <2>1 DEF RowType
    <2>. HIDE DEF w
    <2>5. Leave(o).pc = "up" /\ Succeeds(p, Leave(o)) /\ LocalInv(p, Leave(o), conf, rows')
        BY <1>0, <2>0, PwLeave
    <2>6. RowInv(w, conf, keyFile) /\ (conf.done => Current(w, conf, keyFile))
        BY <2>1, <2>4, Zenon DEF RowInv, Current
    <2>7. \A r \in Procs \ {p} : proc[r].pc \in Sagas => proc[r].row # b
        BY <2>0 DEF PasswordsInv
    <2>8. /\ w.state # "destroyed" /\ w.stored.scheme = "v1" =>
                rows[b].state # "destroyed" /\ rows[b].stored.scheme = "v1"
          /\ Leave(o).pc \notin Booting \cup Sagas
        BY <2>1, <2>4, <2>5, Zenon DEF Booting, Sagas, Setting
    <2>. QED BY <1>0, <2>1, <2>3, <2>4, <2>5, <2>6, <2>7, <2>8, RowStep, Zenon
<1>. QED BY <1>1, <1>2, <1>3 DEF Recovering

-----------------------------------------------------------------------------

\* Nobody's row is failed (reconcile) or goes (Destroy).
LEMMA PwRowAlone ==
    ASSUME StartupInv, PasswordsInv, NEW b \in Rows, FailStuck(b) \/ restartBranch(b) \/ Destroy(b)
    PROVE  PasswordsInv'
<1>1. /\ rows \in [Rows -> RowType] /\ RowInv(rows[b], conf, keyFile)
      /\ UNCHANGED <<conf, keyFile, proc>>
    BY DEF PasswordsInv, FailStuck, restartBranch, Destroy, OnlyRows
<1>2. \A r \in Procs : proc[r].pc \in Sagas => proc[r].row # b
    BY DEF PasswordsInv, LocalInv, FailStuck, restartBranch, Destroy, Row
<1>3. NoPassword \in Stored
    BY DEF NoPassword, Stored
<1>4. PICK w \in RowType : /\ rows' = [rows EXCEPT ![b] = w] /\ w.state \in {"failed", "destroyed"}
                           /\ w.state = "failed" => /\ w.stored = rows[b].stored /\ w.role = rows[b].role
                                                    /\ w.last = rows[b].last
                                                    /\ rows[b].state \in {"busy", "ready"}
    <2>1. ASSUME NEW vol \in {"kept", "gone"}, FailRow(b, vol), rows[b].state \in {"busy", "ready"}
          PROVE  \E w \in RowType :
                    /\ rows' = [rows EXCEPT ![b] = w] /\ w.state = "failed"
                    /\ w.stored = rows[b].stored /\ w.role = rows[b].role /\ w.last = rows[b].last
        <3>. DEFINE w == [rows[b] EXCEPT !.state = "failed", !.vol = vol]
        <3>1. rows' = [rows EXCEPT ![b] = w]
            BY <2>1 DEF FailRow
        <3>2. /\ w \in RowType /\ w.state = "failed" /\ w.stored = rows[b].stored
              /\ w.role = rows[b].role /\ w.last = rows[b].last
            BY <1>1, Zenon DEF RowType
        <3>. HIDE DEF w
        <3>. QED BY <3>1, <3>2, Zenon
    <2>2. CASE Destroy(b)
        <3>. DEFINE w == [rows[b] EXCEPT !.state = "destroyed", !.stored = NoPassword]
        <3>1. rows' = [rows EXCEPT ![b] = w]
            BY <2>2 DEF Destroy
        <3>2. w \in RowType /\ w.state = "destroyed"
            BY <1>1, <1>3, Zenon DEF RowType
        <3>. HIDE DEF w
        <3>. QED BY <3>1, <3>2, Zenon
    <2>3. CASE FailStuck(b) \/ restartBranch(b)
        <3>1. /\ rows[b].state \in {"busy", "ready"}
              /\ \E vol \in {"kept", "gone"} : FailRow(b, vol)
            BY <2>3 DEF FailStuck, restartBranch
        <3>. QED BY <2>1, <3>1, Zenon
    <2>. QED BY <2>2, <2>3
<1>5. /\ rows' \in [Rows -> RowType] /\ rows'[b] = w
      /\ \A x \in Rows \ {b} : rows'[x] = rows[x]
    BY <1>1, <1>4
<1>6. RowInv(w, conf, keyFile) /\ (conf.done => Current(w, conf, keyFile))
    BY <1>1, <1>4, Zenon DEF RowInv, Current, PasswordsInv
<1>7. \A x \in Rows : RowInv(rows'[x], conf, keyFile)
    BY <1>5, <1>6 DEF PasswordsInv
<1>8. \A r \in Procs : LocalInv(r, proc[r], conf, rows')
    <2>. TAKE r \in Procs
    <2>1. LocalInv(r, proc[r], conf, rows)
        BY Zenon DEF PasswordsInv
    <2>2. proc[r].pc \in Sagas => rows'[proc[r].row] = rows[proc[r].row]
        BY <1>2, <1>5, <2>1 DEF LocalInv
    <2>. QED BY <2>1, <2>2 DEF LocalInv, Sagas, Setting
<1>9. /\ conf.done => AllOn(conf) /\ \A x \in Rows : Current(rows'[x], conf, keyFile)
      /\ \A r \in Procs, x \in Rows :
            /\ proc[r].pc \in Booting /\ rows'[x].state # "destroyed"
            /\ rows'[x].stored.scheme = "v1"
            => proc[r].tok = conf.tok
    BY <1>4, <1>5, <1>6, Zenon DEF PasswordsInv
<1>. QED BY <1>1, <1>5, <1>7, <1>8, <1>9, Zenon DEF PasswordsInv, AllOn, At

\* The operator changes the environment.
LEMMA PwConf ==
    ASSUME StartupInv, PasswordsInv,
           \/ \E k \in OpKeys : RotateKey(k)
           \/ DropPrevious
           \/ \E t \in Tokens : RotateToken(t)
    PROVE  PasswordsInv'
<1>0. /\ UNCHANGED <<rows, proc, keyFile>> /\ conf \in Conf
      /\ rows \in [Rows -> RowType] /\ None \notin Keys
    BY StartupAssumption, Zenon DEF PasswordsInv, StartupInv, StartupTypeOK, RotateKey, DropPrevious,
                             RotateToken, OnlyConf
<1>1. ASSUME NEW k \in OpKeys, RotateKey(k)
      PROVE  PasswordsInv'
    <2>1. /\ conf'.env = k /\ conf'.prev = conf.prev \cup ({conf.env} \ {None})
          /\ conf'.done = FALSE /\ conf'.tok = conf.tok
        BY <1>0, <1>1, Zenon DEF RotateKey, Conf
    <2>2. \A b \in Rows : RowInv(rows[b], conf', keyFile)
        BY <1>0, <2>1 DEF PasswordsInv, RowInv
    <2>3. \A p \in Procs : LocalInv(p, proc[p], conf', rows)
        BY <2>1, Zenon DEF PasswordsInv, LocalInv
    <2>. QED BY <1>0, <2>1, <2>2, <2>3, Zenon DEF PasswordsInv, AllOn, At
<1>2. CASE DropPrevious
    <2>1. /\ conf'.env = conf.env /\ conf'.prev = {} /\ conf'.done = FALSE
          /\ conf'.tok = conf.tok /\ conf.done
        BY <1>0, <1>2 DEF DropPrevious, Conf
    <2>2. \A b \in Rows : RowInv(rows[b], conf', keyFile)
        BY <1>0, <2>1, Zenon DEF PasswordsInv, RowInv, Current
    <2>3. \A p \in Procs : LocalInv(p, proc[p], conf', rows)
        BY <2>1, Zenon DEF PasswordsInv, LocalInv, AllOn, At
    <2>. QED BY <1>0, <2>1, <2>2, <2>3, Zenon DEF PasswordsInv, AllOn, At
<1>3. ASSUME NEW t \in Tokens, RotateToken(t)
      PROVE  PasswordsInv'
    <2>1. /\ conf'.env = conf.env /\ conf'.prev = conf.prev /\ conf'.done = conf.done /\ conf.done
        BY <1>0, <1>3, Zenon DEF RotateToken, Conf
    <2>2. \A b \in Rows : rows[b].state # "destroyed" => rows[b].stored.scheme # "v1"
        BY <2>1, Zenon DEF PasswordsInv, Current
    <2>3. \A b \in Rows : RowInv(rows[b], conf', keyFile) /\ Current(rows[b], conf', keyFile)
        BY <1>0, <2>1, <2>2, Zenon DEF PasswordsInv, RowInv, Current
    <2>4. \A p \in Procs : LocalInv(p, proc[p], conf', rows)
        BY <2>1, Zenon DEF PasswordsInv, LocalInv
    <2>. QED BY <1>0, <2>1, <2>2, <2>3, <2>4, Zenon DEF PasswordsInv, AllOn, At
<1>. QED BY <1>1, <1>2, <1>3

\* Every step keeps what the passwords need.
LEMMA PasswordsStep ==
    ASSUME StartupInv, PasswordsInv, [StartupNext]_vars
    PROVE  PasswordsInv'
<1>1. ASSUME NEW p \in Procs, Stop(p)
      PROVE  PasswordsInv'
    BY <1>1, PwExit DEF Stop
<1>2. ASSUME NEW p \in Procs, Keying(p)
      PROVE  PasswordsInv'
    BY <1>2, PwKeys, PwReencrypt DEF Keying
<1>3. CASE UNCHANGED vars
    BY <1>3 DEF vars, PasswordsInv, AllOn, At
<1>. QED BY <1>1, <1>2, <1>3, PwOpening, PwRotating, PwRecovering, PwRowAlone, PwConf DEF StartupNext

\* A new directory, or one the previous release left.
LEMMA PasswordsStart == StartupInit => PasswordsInv
<1>. SUFFICES ASSUME StartupInit PROVE PasswordsInv
    OBVIOUS
<1>0. None \notin Keys /\ OpKeys \subseteq Keys
    BY StartupAssumption DEF Keys
<1>1. \A p \in Procs : proc[p].pc = "down" /\ proc[p].env = None /\ proc[p].pw = 0
    BY DEF StartupInit, Down
<1>2. \A p \in Procs : LocalInv(p, proc[p], conf, rows)
    BY <1>1 DEF LocalInv, Sagas, Setting
<1>3. CASE FreshInit
    <2>1. NewRow \in RowType /\ NewRow.state = "absent" /\ NewRow.role = 0 /\ NewRow.last = "open"
          /\ NewRow.stored.scheme = "none"
        BY DEF NewRow, RowType, Stored, NoPassword
    <2>2. rows \in [Rows -> RowType] /\ \A b \in Rows : rows[b] = NewRow
        BY <1>3, <2>1 DEF FreshInit
    <2>3. \A b \in Rows : RowInv(rows[b], conf, keyFile)
        BY <2>1, <2>2 DEF RowInv
    <2>4. conf.done = FALSE
        BY <1>3 DEF FreshInit
    <2>. QED BY <1>1, <1>2, <2>2, <2>3, <2>4 DEF PasswordsInv, Sagas, Setting, Booting
<1>4. ASSUME NEW v, UpgradeInit(v)
      PROVE  PasswordsInv
    <2>1. PICK tok \in Tokens, env \in OpKeys \cup {None} :
            /\ conf = [env |-> env, prev |-> {}, tok |-> tok, done |-> FALSE, links |-> TRUE]
            /\ rows \in [Rows -> {[NewRow EXCEPT !.state = "ready", !.stored = s, !.role = 1, !.last = "through"] :
                    s \in {Plain(1), [scheme |-> "v1", key |-> tok, pw |-> 1]} \cup
                          {[scheme |-> "v2", key |-> k, pw |-> 1] : k \in {env} \ {None}}}]
        BY <1>4, Zenon DEF UpgradeInit
    <2>2. conf.done = FALSE /\ conf.env = env /\ conf.tok = tok /\ conf.prev = {}
        BY <2>1, Zenon
    <2>3. \A b \in Rows : RowInv(rows[b], conf, keyFile) /\ rows[b] \in RowType
        <3>. TAKE b \in Rows
        <3>1. PICK s : /\ rows[b] = [NewRow EXCEPT !.state = "ready", !.stored = s, !.role = 1,
                                                   !.last = "through"]
                       /\ s \in {Plain(1), [scheme |-> "v1", key |-> tok, pw |-> 1]} \cup
                                {[scheme |-> "v2", key |-> k, pw |-> 1] : k \in {env} \ {None}}
            BY <2>1, Zenon
        <3>2. /\ s \in Stored /\ s.pw = 1
              /\ s.scheme = "v2" => s.key = env /\ env # None
              /\ s.scheme = "v1" => s.key = tok
            BY <1>0, <3>1 DEF Stored, Plain
        <3>a. rows[b] = [state |-> "ready", stored |-> s, role |-> 1, vol |-> "gone", last |-> "through"]
            BY <3>1, Zenon DEF NewRow
        <3>3. /\ rows[b].state = "ready" /\ rows[b].stored = s /\ rows[b].role = 1
              /\ rows[b] \in RowType
            BY <3>a, <3>2 DEF RowType
        <3>. QED BY <1>0, <2>2, <3>2, <3>3 DEF RowInv
    <2>4. rows \in [Rows -> RowType]
        BY <2>1, <2>3, Zenon
    <2>. QED BY <1>1, <1>2, <2>2, <2>3, <2>4 DEF PasswordsInv, Sagas, Setting, Booting
<1>. QED BY <1>3, <1>4 DEF StartupInit

\* The password of a live branch is readable with the keys configured now, through
\* re-encryption (ReencryptSecrets, isCurrent), rotation of keys and tokens and starts
\* that die half way; and it is its role's once a create or a reset that rotates went
\* through, also while the branch fails and is recovered (RecoverBranch).
THEOREM PasswordsStayUsable == StartupSpec => []PasswordsUsable
<1>1. StartupInit => StartupInv /\ PasswordsInv
    BY StartupStart, PasswordsStart
<1>2. StartupInv /\ PasswordsInv /\ [StartupNext]_vars => StartupInv' /\ PasswordsInv'
    BY StartupStep, PasswordsStep
<1>3. PasswordsInv => PasswordsUsable
    <2>. SUFFICES ASSUME PasswordsInv, NEW b \in Rows, rows[b].state # "destroyed"
                  PROVE  /\ decrypts([keys |-> KeysNow, tok |-> conf.tok], rows[b].stored)
                         /\ rows[b].last = "through" /\ rows[b].role # 0 =>
                               rows[b].stored.pw = rows[b].role
        BY DEF PasswordsUsable
    <2>1. RowInv(rows[b], conf, keyFile)
        BY DEF PasswordsInv
    <2>. QED BY <2>1 DEF RowInv, decrypts, KeysNow
<1>. QED BY <1>1, <1>2, <1>3, PTL DEF StartupSpec
=============================================================================
