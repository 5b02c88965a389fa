---------------------------- MODULE ClusterProofs ----------------------------
(***************************************************************************)
(* What holds of branchd among the pods of a cluster.  The Secret of a     *)
(* helper pod that has its name to itself is there until its container has *)
(* started, for any number of calls and names (Helper.tla).  The leader    *)
(* gate and the drain, for any number of replicas, requests, terms and     *)
(* failures (Leadership.tla).                                              *)
(***************************************************************************)
EXTENDS Helper, Leadership, TLAPS

\* The provers a leaf is tried with, unless it names its own.
USE SMTT(10), Zenon, SMTT(30)

-----------------------------------------------------------------------------
(* RunHelper's pods. *)

Phases == {"none", "pending", "failing", "running", "ending", "succeeded", "failed"}
Pod == [phase : Phases, env : BOOLEAN, old : BOOLEAN]
Call == [pc : {"idle", "secret", "pod", "watch", "get", "follow", "remove", "unsecret", "done"},
         name : Names \cup {None}, env : BOOLEAN, tries : Nat, fails : Nat, chan : Seq(Phases),
         started : BOOLEAN, failure : BOOLEAN, result : {"none", "ok", "error"}]

HelperTypeOK ==
    /\ pods \in [Names -> Pod] /\ call \in [Calls -> Call]
    /\ secrets \subseteq Names /\ plan \subseteq Names /\ faults \in Nat

\* The calls that use a name, and those of them that wait for the pod.
Holders == {"pod", "watch", "get", "follow", "remove", "unsecret"}
Waiters == {"watch", "get", "follow"}
Starting == {"pending", "failing"}

\* What holds of a call in state q, with pods P and Secrets S, while no other call has
\* gone on under its name: before it creates the pod there is none, and its Secret is
\* there; it is there while the pod starts; and a watch has reported a start only of a
\* pod that started.
CallSafe(q, P, S, X) ==
    /\ q.pc \in Holders => q.name \in Names
    /\ q.pc = "pod" /\ q.name \notin X => P[q.name].phase = "none" /\ (q.env => q.name \in S)
    /\ q.pc \in Waiters /\ q.name \notin X /\ P[q.name].phase \in Starting /\ P[q.name].env =>
          q.name \in S
    /\ q.pc \in {"get", "follow"} /\ q.name \notin X =>
          \A i \in 1..Len(q.chan) : podStarted(q.chan[i]) => P[q.name].phase \notin Starting

\* A name in use was drawn, by one call unless it is among the clashed ones, and
\* without a draw there is no pod.
NamesInv ==
    /\ \A c \in Calls : call[c].pc \in Holders => call[c].name \in drawn
    /\ \A c, d \in Calls : /\ call[c].pc \in Holders /\ call[d].pc \in Holders
                           /\ call[c].name = call[d].name /\ call[c].name \notin clashed
                           => c = d
    /\ \A n \in Names \ drawn : Phase(n) = "none"

HelperInv == /\ HelperTypeOK /\ NamesInv
             /\ \A c \in Calls : CallSafe(call[c], pods, secrets, clashed)

-----------------------------------------------------------------------------

\* Call c becomes q, which takes up no name; at most the Secret of c's name goes.
LEMMA CallOnly ==
    ASSUME HelperInv, NEW c \in Calls, NEW q \in Call, call' = [call EXCEPT ![c] = q],
           UNCHANGED <<pods, plan>>, SameNames, faults' \in Nat,
           q.pc \in Holders => call[c].pc \in Holders /\ q.name = call[c].name,
           \/ secrets' = secrets
           \/ secrets' = secrets \ {call[c].name} /\ call[c].pc \in Holders,
           CallSafe(q, pods, secrets', clashed)
    PROVE  HelperInv'
<1>1. /\ call' \in [Calls -> Call] /\ call'[c] = q
      /\ \A d \in Calls \ {c} : call'[d] = call[d]
      /\ drawn' = drawn /\ clashed' = clashed /\ pods' = pods
    BY DEF HelperInv, HelperTypeOK, SameNames
<1>2. HelperTypeOK'
    BY <1>1 DEF HelperInv, HelperTypeOK
<1>3. NamesInv'
    BY <1>1 DEF HelperInv, NamesInv, Phase
<1>4. ASSUME NEW d \in Calls \ {c}
      PROVE  CallSafe(call[d], pods, secrets', clashed)
    <2>1. CallSafe(call[d], pods, secrets, clashed)
        BY DEF HelperInv
    <2>2. /\ call[d].pc \in Holders /\ call[d].name \notin clashed /\ call[d].name \in secrets
          => call[d].name \in secrets'
        BY DEF HelperInv, NamesInv
    <2>. QED BY <2>1, <2>2 DEF CallSafe, Holders, Waiters
<1>5. \A d \in Calls : CallSafe(call'[d], pods', secrets', clashed')
    BY <1>1, <1>4
<1>. QED BY <1>2, <1>3, <1>5 DEF HelperInv

\* A call that stopped, or has not begun.
LEMMA Settled ==
    ASSUME NEW q \in Call, q.pc \in {"idle", "secret", "remove", "unsecret", "done"},
           q.pc \in Holders => q.name \in Names, NEW P, NEW S, NEW X
    PROVE  CallSafe(q, P, S, X)
BY DEF CallSafe, Waiters

\* Pod n, which exists, becomes w, and the calls that watch it may hear of phase ph;
\* its Secret may go with the pod.
LEMMA PodMoves ==
    ASSUME HelperInv, NEW n \in Names, NEW w \in Pod, pods' = [pods EXCEPT ![n] = w],
           Phase(n) # "none", w.phase \in Starting => Phase(n) \in Starting /\ w.env = pods[n].env,
           NEW ph \in Phases, podStarted(ph) => w.phase \notin Starting,
           call' \in [Calls -> Call], plan' \subseteq Names, faults' \in Nat, SameNames,
           \A d \in Calls :
               /\ call'[d].pc = call[d].pc \/ (call'[d].pc = "unsecret" /\ call[d].pc = "remove")
               /\ call'[d].name = call[d].name /\ call'[d].env = call[d].env
               /\ \/ call'[d].chan = call[d].chan
                  \/ call[d].name = n /\ call'[d].chan = Append(call[d].chan, ph),
           secrets' = secrets \/ (secrets' = secrets \ {n} /\ w.phase = "none")
    PROVE  HelperInv'
<1>0. /\ pods' \in [Names -> Pod] /\ pods'[n] = w /\ \A m \in Names \ {n} : pods'[m] = pods[m]
      /\ drawn' = drawn /\ clashed' = clashed /\ HelperTypeOK
    BY DEF HelperInv, HelperTypeOK, SameNames
<1>1. HelperTypeOK'
    BY <1>0 DEF HelperTypeOK
<1>2. NamesInv'
    <2>1. \A d \in Calls : call'[d].pc \in Holders => call[d].pc \in Holders
        BY DEF Holders
    <2>2. \A m \in Names \ drawn : m # n
        BY DEF HelperInv, NamesInv
    <2>. QED BY <1>0, <2>1, <2>2 DEF HelperInv, NamesInv, Phase
<1>3. ASSUME NEW d \in Calls
      PROVE  CallSafe(call'[d], pods', secrets', clashed')
    <2>. DEFINE o == call[d]
                q == call'[d]
    <2>0. CallSafe(o, pods, secrets, clashed) /\ o \in Call /\ q \in Call
        BY <1>0 DEF HelperInv, HelperTypeOK
    <2>1. CASE q.pc = "unsecret"
        <3>1. q.pc \in Holders => q.name \in Names
            BY <2>0, <2>1 DEF CallSafe, Holders
        <3>. QED BY <2>0, <2>1, <3>1, Settled
    <2>2. CASE q.pc = o.pc /\ q.name = o.name /\ q.env = o.env
        <3>1. q.pc \in Holders => q.name \in Names
            BY <2>0, <2>2 DEF CallSafe
        <3>2. ASSUME q.pc = "pod", q.name \notin clashed
              PROVE  pods'[q.name].phase = "none" /\ (q.env => q.name \in secrets')
            <4>1. Phase(o.name) = "none" /\ (o.env => o.name \in secrets) /\ o.name \in Names
                BY <2>0, <2>2, <3>2 DEF CallSafe, Phase, Holders
            <4>. QED BY <1>0, <2>2, <4>1 DEF Phase
        <3>3. ASSUME q.pc \in Waiters, q.name \notin clashed, pods'[q.name].phase \in Starting,
                     pods'[q.name].env
              PROVE  q.name \in secrets'
            <4>1. q.name \in Names
                BY <3>1, <3>3 DEF Waiters, Holders
            <4>2. pods[q.name].phase \in Starting /\ pods[q.name].env
                BY <1>0, <3>3, <4>1 DEF Phase
            <4>3. q.name \in secrets
                BY <2>0, <2>2, <3>3, <4>2 DEF CallSafe
            <4>. QED BY <1>0, <3>3, <4>3 DEF Starting
        <3>4. ASSUME q.pc \in {"get", "follow"}, q.name \notin clashed,
                     NEW i \in 1..Len(q.chan), podStarted(q.chan[i])
              PROVE  pods'[q.name].phase \notin Starting
            <4>1. q.name \in Names /\ o.chan \in Seq(Phases)
                BY <2>0, <3>1, <3>4 DEF Holders, Call
            <4>2. \A j \in 1..Len(o.chan) : podStarted(o.chan[j]) => Phase(q.name) \notin Starting
                BY <2>0, <2>2, <3>4 DEF CallSafe, Phase
            <4>3. pods'[q.name].phase \in Starting => Phase(q.name) \in Starting
                BY <1>0, <4>1 DEF Phase
            <4>4. CASE i \in 1..Len(o.chan) /\ q.chan[i] = o.chan[i]
                BY <3>4, <4>2, <4>3, <4>4
            <4>5. CASE o.name = n /\ q.chan[i] = ph
                BY <1>0, <2>2, <3>4, <4>5
            <4>6. \A t \in Seq(Phases) : \A j \in 1..Len(Append(t, ph)) :
                    \/ j \in 1..Len(t) /\ Append(t, ph)[j] = t[j]
                    \/ Append(t, ph)[j] = ph
                OBVIOUS
            <4>. QED BY <3>4, <4>1, <4>4, <4>5, <4>6
        <3>5. clashed' = clashed
            BY <1>0
        <3>. QED BY ONLY <3>1, <3>2, <3>3, <3>4, <3>5, Zenon DEF CallSafe
    <2>. QED BY <2>1, <2>2
<1>. QED BY <1>1, <1>2, <1>3, Zenon DEF HelperInv

\* What the calls that watch pod n are told.
LEMMA Notified ==
    ASSUME HelperTypeOK, NEW n \in Names, NEW ph \in Phases
    PROVE  /\ Notify(n, ph) \in [Calls -> Call]
           /\ \A d \in Calls :
                LET q == Notify(n, ph)[d] IN
                /\ q.pc = call[d].pc /\ q.name = call[d].name /\ q.env = call[d].env
                /\ ~Listening(call[d]) => q = call[d]
                /\ q.chan = call[d].chan \/ (call[d].name = n /\ q.chan = Append(call[d].chan, ph))
                /\ call[d].name # n => q = call[d]
<1>1. ASSUME NEW d \in Calls
      PROVE  LET q == Notify(n, ph)[d] IN
             /\ q \in Call /\ q.pc = call[d].pc /\ q.name = call[d].name /\ q.env = call[d].env
             /\ ~Listening(call[d]) => q = call[d]
             /\ q.chan = call[d].chan \/ (call[d].name = n /\ q.chan = Append(call[d].chan, ph))
             /\ call[d].name # n => q = call[d]
    <2>1. call[d] \in Call
        BY DEF HelperTypeOK
    <2>2. CASE Listening(call[d]) /\ call[d].name = n /\ ph # "ending"
        <3>. DEFINE ch == Append(call[d].chan, ph)
        <3>1. ch \in Seq(Phases)
            BY <2>1 DEF Call
        <3>2. Notify(n, ph)[d] = [call[d] EXCEPT !.chan = ch]
            BY <2>2 DEF Notify
        <3>. HIDE DEF ch
        <3>3. [call[d] EXCEPT !.chan = ch] \in Call
            BY <2>1, <3>1, Zenon DEF Call
        <3>4. /\ [call[d] EXCEPT !.chan = ch].pc = call[d].pc
              /\ [call[d] EXCEPT !.chan = ch].name = call[d].name
              /\ [call[d] EXCEPT !.chan = ch].env = call[d].env
              /\ [call[d] EXCEPT !.chan = ch].chan = ch
            BY <2>1, Zenon DEF Call
        <3>. QED BY <2>2, <3>2, <3>3, <3>4, Zenon DEF ch
    <2>3. CASE ~(Listening(call[d]) /\ call[d].name = n /\ ph # "ending")
        <3>1. Notify(n, ph)[d] = call[d]
            BY <2>3 DEF Notify
        <3>. QED BY <2>1, <3>1, Zenon
    <2>. QED BY <2>2, <2>3
<1>2. Notify(n, ph) = [d \in Calls |-> Notify(n, ph)[d]]
    BY DEF Notify
<1>3. \A d \in Calls : Notify(n, ph)[d] \in Call
    BY <1>1, Zenon
<1>4. Notify(n, ph) \in [Calls -> Call]
    BY ONLY <1>2, <1>3
<1>. QED BY <1>1, <1>4, Zenon

-----------------------------------------------------------------------------

\* The records a call becomes when it stops waiting or is over.
LEMMA Ends ==
    ASSUME NEW q \in Call, NEW r \in {"none", "ok", "error"}
    PROVE  /\ Over(q, r) \in Call /\ Over(q, r).pc = "remove" /\ Over(q, r).name = q.name
           /\ [Idle EXCEPT !.pc = "done", !.result = r] \in Call
           /\ [Idle EXCEPT !.pc = "done", !.result = r].pc = "done"
<1>1. Idle \in Call
    BY DEF Idle, Call
<1>. QED BY <1>1, Zenon DEF Over, Idle, Call

\* Call c gives up its pod, or has removed it, or dies.
LEMMA CallEnds ==
    ASSUME HelperInv, NEW c \in Calls, UNCHANGED <<pods, secrets, plan>>, SameNames, faults' \in Nat,
           NEW r \in {"none", "ok", "error"},
           \/ call' = [call EXCEPT ![c] = Over(call[c], r)] /\ call[c].pc \in Waiters
           \/ call' = [call EXCEPT ![c] = [Idle EXCEPT !.pc = "done", !.result = r]]
    PROVE  HelperInv'
<1>1. call[c] \in Call /\ CallSafe(call[c], pods, secrets, clashed)
    BY DEF HelperInv, HelperTypeOK
<1>2. PICK q \in Call : call' = [call EXCEPT ![c] = q] /\ q.pc \in {"remove", "done"}
                        /\ (q.pc = "remove" => call[c].pc \in Waiters /\ q.name = call[c].name)
    <2>. DEFINE v == Over(call[c], r)
                e == [Idle EXCEPT !.pc = "done", !.result = r]
    <2>1. /\ v \in Call /\ v.pc = "remove" /\ v.name = call[c].name
          /\ e \in Call /\ e.pc = "done"
        BY <1>1, Ends, Zenon
    <2>2. \/ call' = [call EXCEPT ![c] = v] /\ call[c].pc \in Waiters
          \/ call' = [call EXCEPT ![c] = e]
        OBVIOUS
    <2>. HIDE DEF v, e
    <2>. QED BY <2>1, <2>2
<1>3. q.pc \in Holders => call[c].pc \in Holders /\ q.name = call[c].name /\ q.name \in Names
    BY <1>1, <1>2 DEF Holders, Waiters, CallSafe
<1>4. CallSafe(q, pods, secrets', clashed)
    BY <1>2, <1>3, Settled
<1>. QED BY <1>2, <1>3, <1>4, CallOnly, Zenon

\* A pod is sighted in phase ph: the call's Secret goes once it has started.
LEMMA SightedKeeps ==
    ASSUME HelperInv, NEW c \in Calls, NEW ph \in Phases, NEW rest \in Seq(Phases),
           Sighted(c, ph, rest), call[c].pc \in Waiters,
           call[c].name \notin clashed =>
               /\ podStarted(ph) => Phase(call[c].name) \notin Starting
               /\ \A i \in 1..Len(rest) : podStarted(rest[i]) => Phase(call[c].name) \notin Starting
    PROVE  HelperInv'
<1>. DEFINE o == call[c]
            x == o.name
            seen == [o EXCEPT !.pc = "follow", !.chan = rest, !.fails = 0,
                              !.started = @ \/ podStarted(ph), !.failure = podStartFailure(ph)]
<1>0. HelperTypeOK /\ o \in Call /\ o.pc \in Holders /\ CallSafe(o, pods, secrets, clashed)
    BY DEF HelperInv, HelperTypeOK, Waiters, Holders
<1>1. seen \in Call
    <2>1. (o.started \/ podStarted(ph)) \in BOOLEAN /\ podStartFailure(ph) \in BOOLEAN
        BY DEF podStarted, podStartFailure
    <2>. QED BY <1>0, <2>1, Zenon DEF Call
<1>2. seen.pc = "follow" /\ seen.name = x /\ seen.chan = rest
    BY <1>0 DEF Call
<1>3. PICK q \in Call : /\ call' = [call EXCEPT ![c] = q] /\ q.name = x
                        /\ q.pc = "remove" \/ (q.pc = "follow" /\ q.chan = rest)
    <2>1. call' = [call EXCEPT ![c] = observe(o, ph, rest)]
        BY DEF Sighted
    <2>2. observe(o, ph, rest) = IF ph \in {"succeeded", "failed"}
            THEN Over(seen, IF ph = "succeeded" THEN "ok" ELSE "error") ELSE seen
        BY DEF observe
    <2>. HIDE DEF seen
    <2>3. CASE ph \in {"succeeded", "failed"}
        <3>. DEFINE r == IF ph = "succeeded" THEN "ok" ELSE "error"
                    v == Over(seen, r)
        <3>1. r \in {"none", "ok", "error"}
            OBVIOUS
        <3>2. observe(o, ph, rest) = v
            BY <2>2, <2>3
        <3>. HIDE DEF r
        <3>3. v \in Call /\ v.pc = "remove" /\ v.name = x
            BY <1>1, <1>2, <3>1, Ends
        <3>. HIDE DEF v
        <3>. QED BY <2>1, <3>2, <3>3, Zenon
    <2>4. CASE ph \notin {"succeeded", "failed"}
        BY <1>1, <1>2, <2>1, <2>2, <2>4, ZenonT(30)
    <2>. QED BY <2>3, <2>4
<1>. HIDE DEF seen
<1>4. /\ UNCHANGED <<pods, plan>> /\ SameNames /\ faults' \in Nat
      /\ secrets' = secrets \/ (secrets' = secrets \ {x} /\ podStarted(ph))
    BY <1>0 DEF Sighted, Fault, NoFault, HelperTypeOK
<1>5. x \in Names
    BY <1>0 DEF CallSafe
<1>6. CallSafe(q, pods, secrets', clashed)
    <2>1. CASE q.pc = "remove"
        BY <1>3, <1>5, <2>1, Settled
    <2>2. CASE q.pc = "follow" /\ q.chan = rest
        BY <1>0, <1>3, <1>4, <1>5, <2>2 DEF CallSafe, Phase, Waiters
    <2>. QED BY <1>3, <2>1, <2>2
<1>. QED BY <1>0, <1>3, <1>4, <1>6, CallOnly, Zenon

-----------------------------------------------------------------------------
(* The steps of a call. *)

\* createHelper draws a name; with an environment, one whose Secret does not exist.
LEMMA CreateSecretKeeps ==
    ASSUME HelperInv, NEW c \in Calls, CreateSecret(c)
    PROVE  HelperInv'
<1>. DEFINE o == call[c]
<1>0. HelperTypeOK /\ o \in Call /\ o.pc = "secret" /\ UNCHANGED <<pods, plan>>
    BY Zenon DEF HelperInv, HelperTypeOK, CreateSecret, At
<1>1. ASSUME NEW n \in Names, NoFault, buildHelperSecret(n, o.env), drawn' = drawn \cup {n},
             clashed' = IF n \in drawn THEN clashed \cup {n} ELSE clashed,
             call' = [call EXCEPT ![c].pc = "pod", ![c].name = n, ![c].tries = @ + 1]
      PROVE  HelperInv'
    <2>. DEFINE t == o.tries + 1
                q == [o EXCEPT !.pc = "pod", !.name = n, !.tries = t]
    <2>1. t \in Nat
        BY <1>0 DEF Call
    <2>2. call' = [call EXCEPT ![c] = q]
        BY <1>1, Zenon
    <2>. HIDE DEF t
    <2>3. q \in Call /\ q.pc = "pod" /\ q.name = n /\ q.env = o.env
        BY <1>0, <2>1, Zenon DEF Call
    <2>. HIDE DEF q
    <2>4. call' \in [Calls -> Call] /\ call'[c] = q /\ \A d \in Calls \ {c} : call'[d] = call[d]
        BY <1>0, <2>2, <2>3 DEF HelperTypeOK
    <2>5. /\ secrets' \subseteq Names /\ secrets \subseteq secrets' /\ UNCHANGED faults
          /\ o.env => n \in secrets'
        BY <1>0, <1>1 DEF buildHelperSecret, NoFault, HelperTypeOK
    <2>6. HelperTypeOK'
        BY <1>0, <2>4, <2>5 DEF HelperTypeOK
    <2>7. NamesInv
        BY DEF HelperInv
    <2>8. clashed \subseteq clashed' /\ (n \in drawn => n \in clashed')
        BY <1>1
    <2>9. NamesInv'
        <3>1. \A d \in Calls : call'[d].pc \in Holders => call'[d].name \in drawn'
            BY <1>1, <2>3, <2>4, <2>7 DEF NamesInv
        <3>2. ASSUME NEW d \in Calls, NEW e \in Calls, call'[d].pc \in Holders, call'[e].pc \in Holders,
                     call'[d].name = call'[e].name, call'[d].name \notin clashed'
              PROVE  d = e
            <4>1. CASE d # c /\ e # c
                BY <2>4, <2>7, <2>8, <3>2, <4>1 DEF NamesInv
            <4>2. CASE d = c /\ e # c
                BY <2>3, <2>4, <2>7, <2>8, <3>2, <4>2 DEF NamesInv
            <4>3. CASE d # c /\ e = c
                BY <2>3, <2>4, <2>7, <2>8, <3>2, <4>3 DEF NamesInv
            <4>. QED BY <4>1, <4>2, <4>3
        <3>3. \A m \in Names \ drawn' : pods'[m].phase = "none"
            BY <1>0, <1>1, <2>7 DEF NamesInv, Phase
        <3>. QED BY <3>1, <3>2, <3>3 DEF NamesInv, Phase
    <2>10. CallSafe(q, pods, secrets', clashed')
        BY <2>3, <2>5, <2>7, <2>8 DEF CallSafe, Waiters, NamesInv, Phase
    <2>11. ASSUME NEW d \in Calls \ {c}
           PROVE  CallSafe(call[d], pods, secrets', clashed')
        <3>1. CallSafe(call[d], pods, secrets, clashed)
            BY DEF HelperInv
        <3>. QED BY <2>5, <2>8, <3>1 DEF CallSafe
    <2>12. \A d \in Calls : CallSafe(call'[d], pods', secrets', clashed')
        BY <1>0, <2>4, <2>10, <2>11
    <2>. QED BY <2>6, <2>9, <2>12 DEF HelperInv
<1>2. CASE /\ NoFault /\ UNCHANGED secrets /\ SameNames
           /\ call' = [call EXCEPT ![c] = IF o.tries + 1 < MaxTries
                THEN [o EXCEPT !.tries = o.tries + 1]
                ELSE [Idle EXCEPT !.pc = "done", !.result = "error"]]
    <2>0. faults' \in Nat
        BY <1>0, <1>2 DEF HelperTypeOK, NoFault
    <2>. DEFINE q == [o EXCEPT !.tries = o.tries + 1]
                e == [Idle EXCEPT !.pc = "done", !.result = "error"]
    <2>3. call' = [call EXCEPT ![c] = IF o.tries + 1 < MaxTries THEN q ELSE e]
        BY <1>2
    <2>1. CASE o.tries + 1 < MaxTries
        <3>1. o.tries + 1 \in Nat
            BY <1>0 DEF Call
        <3>3. q \in Call /\ q.pc = "secret"
            BY <1>0, <3>1 DEF Call
        <3>. HIDE DEF q, e
        <3>2. call' = [call EXCEPT ![c] = q]
            BY <2>1, <2>3
        <3>4. q.pc \notin Holders /\ CallSafe(q, pods, secrets', clashed)
            BY <3>3, Settled DEF Holders
        <3>. QED BY <1>0, <1>2, <2>0, <3>2, <3>3, <3>4, CallOnly, Zenon
    <2>2. CASE ~(o.tries + 1 < MaxTries)
        <3>. HIDE DEF q, e
        <3>1. call' = [call EXCEPT ![c] = e]
            BY <2>2, <2>3
        <3>. QED BY <1>0, <1>2, <2>0, <3>1, CallEnds, Zenon DEF e
    <2>. QED BY <2>1, <2>2
<1>3. CASE /\ Fault /\ UNCHANGED secrets /\ SameNames
           /\ call' = [call EXCEPT ![c] = [Idle EXCEPT !.pc = "done", !.result = "error"]]
    <2>1. faults' \in Nat
        BY <1>0, <1>3 DEF Fault, HelperTypeOK
    <2>. QED BY <1>0, <1>3, <2>1, CallEnds, Zenon
<1>. QED BY <1>1, <1>2, <1>3, Zenon DEF CreateSecret

\* createHelper creates the pod, or removes the Secret of its name.
LEMMA CreatePodKeeps ==
    ASSUME HelperInv, NEW c \in Calls, CreatePod(c)
    PROVE  HelperInv'
<1>. DEFINE o == call[c]
            n == o.name
<1>0. /\ HelperTypeOK /\ o \in Call /\ o.pc = "pod" /\ UNCHANGED plan /\ SameNames
      /\ CallSafe(o, pods, secrets, clashed) /\ o.pc \in Holders
    BY DEF HelperInv, HelperTypeOK, CreatePod, At, Holders
<1>a. n \in Names /\ drawn' = drawn /\ clashed' = clashed
    BY <1>0 DEF CallSafe, SameNames
<1>1. CASE /\ NoFault /\ ~Taken(n) /\ UNCHANGED secrets
           /\ pods' = [pods EXCEPT ![n] = [NoPod EXCEPT !.phase = "pending", !.env = o.env]]
           /\ call' = [Notify(n, "pending") EXCEPT ![c].pc = "watch", ![c].tries = 0]
    <2>. DEFINE f == Notify(n, "pending")
                q == [o EXCEPT !.pc = "watch", !.tries = 0]
                w == [NoPod EXCEPT !.phase = "pending", !.env = o.env]
    <2>0. /\ f \in [Calls -> Call] /\ f[c] = o
          /\ \A d \in Calls : /\ f[d] \in Call /\ f[d].pc = call[d].pc /\ f[d].name = call[d].name
                              /\ call[d].name # n => f[d] = call[d]
        <3>1. ~Listening(o) /\ "pending" \in Phases
            BY <1>0 DEF Listening, Phases
        <3>2. /\ f \in [Calls -> Call]
              /\ \A d \in Calls : /\ f[d].pc = call[d].pc /\ f[d].name = call[d].name
                                  /\ ~Listening(call[d]) => f[d] = call[d]
                                  /\ call[d].name # n => f[d] = call[d]
            BY <1>0, <1>a, <3>1, Notified, Zenon
        <3>. HIDE DEF f
        <3>. QED BY <3>1, <3>2
    <2>1. q \in Call /\ q.pc = "watch" /\ q.name = n
        BY <1>0, Zenon DEF Call
    <2>2. w \in Pod /\ w.phase = "pending" /\ w.env = o.env
        <3>1. o.env \in BOOLEAN
            BY <1>0, Zenon DEF Call
        <3>. QED BY <3>1, Zenon DEF NoPod, Phases, Pod
    <2>. HIDE DEF f
    <2>3. call' = [f EXCEPT ![c] = q] /\ pods' = [pods EXCEPT ![n] = w]
        <3>1. call' = [f EXCEPT ![c] = [f[c] EXCEPT !.pc = "watch", !.tries = 0]]
            BY <1>1, Zenon DEF f
        <3>. QED BY <1>1, <2>0, <3>1, Zenon
    <2>. HIDE DEF q, w
    <2>4. call' \in [Calls -> Call] /\ call'[c] = q /\ \A d \in Calls \ {c} : call'[d] = f[d]
        BY <2>0, <2>1, <2>3
    <2>5. /\ pods' \in [Names -> Pod] /\ pods'[n] = w
          /\ \A m \in Names \ {n} : pods'[m] = pods[m]
        BY <1>0, <1>a, <2>2, <2>3 DEF HelperTypeOK
    <2>6. HelperTypeOK'
        BY <1>0, <1>1, <2>4, <2>5 DEF HelperTypeOK, NoFault
    <2>7. NamesInv /\ n \in drawn
        BY <1>0 DEF HelperInv, NamesInv
    <2>8. \A d \in Calls : call'[d].name = call[d].name /\ (call'[d].pc \in Holders => call[d].pc \in Holders)
        BY <1>0, <2>0, <2>1, <2>4
    <2>9. NamesInv'
        BY <1>a, <2>5, <2>7, <2>8 DEF NamesInv, Phase
    <2>10. CallSafe(q, pods', secrets', clashed')
        BY <1>0, <1>1, <1>a, <2>1, <2>2, <2>5 DEF CallSafe, Waiters
    <2>11. ASSUME NEW d \in Calls \ {c}
           PROVE  CallSafe(call'[d], pods', secrets', clashed')
        <3>1. CallSafe(call[d], pods, secrets, clashed)
            BY DEF HelperInv
        <3>2. CASE call[d].name # n
            <4>1. call'[d] = call[d]
                BY <2>0, <2>4, <3>2
            <4>2. call[d].pc \in Holders => pods'[call[d].name] = pods[call[d].name]
                BY <2>5, <3>1, <3>2 DEF CallSafe
            <4>3. secrets' = secrets /\ clashed' = clashed
                BY <1>1, <1>a
            <4>. HIDE DEF o, n, f, q, w
            <4>. QED BY <3>1, <4>1, <4>2, <4>3 DEF CallSafe, Holders, Waiters
        <3>3. CASE call[d].name = n
            <4>1. call'[d].name = n /\ (call'[d].pc \in Holders => n \in clashed)
                BY <1>0, <2>7, <2>8, <3>3 DEF NamesInv
            <4>. QED BY <1>a, <4>1 DEF CallSafe, Holders, Waiters
        <3>. QED BY <3>2, <3>3
    <2>12. \A d \in Calls : CallSafe(call'[d], pods', secrets', clashed')
        BY <2>4, <2>10, <2>11
    <2>. QED BY <2>6, <2>9, <2>12 DEF HelperInv
<1>2. CASE /\ IF Taken(n) THEN NoFault ELSE Fault
           /\ secrets' = secrets \ {n} /\ UNCHANGED pods
           /\ call' = [call EXCEPT ![c] = IF Taken(n) /\ @.tries < MaxTries
                THEN [@ EXCEPT !.pc = "secret", !.name = None]
                ELSE [Idle EXCEPT !.pc = "done", !.result = "error"]]
    <2>0. faults' \in Nat
        BY <1>0, <1>2 DEF HelperTypeOK, NoFault, Fault
    <2>1. PICK q \in Call : call' = [call EXCEPT ![c] = q] /\ q.pc \in {"secret", "done"}
        <3>. DEFINE a == [o EXCEPT !.pc = "secret", !.name = None]
                    e == [Idle EXCEPT !.pc = "done", !.result = "error"]
        <3>1. a \in Call /\ a.pc = "secret"
            BY <1>0, Zenon DEF Call
        <3>2. e \in Call /\ e.pc = "done"
            BY <1>0, Ends
        <3>3. call' = [call EXCEPT ![c] = IF Taken(n) /\ o.tries < MaxTries THEN a ELSE e]
            BY <1>2
        <3>. HIDE DEF a, e
        <3>. QED BY <3>1, <3>2, <3>3, Zenon
    <2>3. q.pc \notin Holders /\ CallSafe(q, pods, secrets', clashed)
        BY <2>1, Settled DEF Holders
    <2>4. secrets' = secrets \ {call[c].name} /\ UNCHANGED <<pods, plan>>
        BY <1>0, <1>2
    <2>. QED BY <1>0, <2>0, <2>1, <2>3, <2>4, CallOnly, Zenon
<1>. QED BY <1>1, <1>2 DEF CreatePod

\* Waiting goes on: the watch is opened, or opened again.
LEMMA WatchKeeps ==
    ASSUME HelperInv, NEW c \in Calls, call[c].pc \in Waiters, faults' \in Nat,
           UNCHANGED <<pods, secrets, plan>>, SameNames, NEW pc \in {"watch", "get"}, NEW f \in Nat,
           call' = [call EXCEPT ![c] = [call[c] EXCEPT !.pc = pc, !.fails = f, !.chan = << >>]]
    PROVE  HelperInv'
<1>. DEFINE o == call[c]
            q == [o EXCEPT !.pc = pc, !.fails = f, !.chan = << >>]
<1>0. o \in Call /\ o.pc \in Holders /\ CallSafe(o, pods, secrets, clashed)
    BY DEF HelperInv, HelperTypeOK, Holders, Waiters
<1>1. << >> \in Seq(Phases) /\ Len(<< >>) = 0
    OBVIOUS
<1>2. q \in Call /\ q.pc = pc
    BY <1>0, <1>1, Zenon DEF Call
<1>3. q.name = o.name /\ q.chan = << >>
    BY <1>0 DEF Call
<1>4. call' = [call EXCEPT ![c] = q]
    OBVIOUS
<1>. HIDE DEF q
<1>5. \A i \in 1..Len(q.chan) : FALSE
    BY <1>1, <1>3
<1>6. CallSafe(q, pods, secrets', clashed)
    BY <1>0, <1>2, <1>3, <1>5 DEF CallSafe, Waiters, Holders
<1>. QED BY <1>0, <1>2, <1>3, <1>4, <1>6, CallOnly, Zenon

\* retry: once more, or the wait is over.
LEMMA RetryKeeps ==
    ASSUME HelperInv, NEW c \in Calls, call[c].pc \in Waiters, Retry(c)
    PROVE  HelperInv'
<1>0. call[c] \in Call /\ faults' \in Nat /\ UNCHANGED <<pods, secrets, plan>> /\ SameNames
    BY DEF HelperInv, HelperTypeOK, Retry, Fault, OnlyCall, SameNames
<1>1. CASE call' = [call EXCEPT ![c] = Over(call[c], "error")]
    BY <1>0, <1>1, CallEnds, Zenon
<1>2. CASE call' = [call EXCEPT ![c] = [call[c] EXCEPT !.pc = "watch", !.fails = call[c].fails + 1,
                                                       !.chan = << >>]]
    <2>1. call[c].fails + 1 \in Nat
        BY <1>0 DEF Call
    <2>. QED BY <1>0, <1>2, <2>1, WatchKeeps, Zenon
<1>. QED BY <1>1, <1>2 DEF Retry

\* waitPodDone: watch, read, follow the watch's events.
LEMMA WaitKeeps ==
    ASSUME HelperInv, NEW c \in Calls,
           Look(c) \/ followPodWatch(c) \/ WatchEnds(c) \/ check(c) \/ CtxDone(c)
    PROVE  HelperInv'
<1>. DEFINE o == call[c]
<1>0. HelperTypeOK /\ o \in Call /\ o.pc \in Waiters
    BY DEF HelperInv, HelperTypeOK, Look, WatchPod, GetPod, followPodWatch, WatchEnds, check, CtxDone,
           At, Waiting, Waiters
<1>a. o.name \in Names /\ o.chan \in Seq(Phases) /\ o.fails \in Nat /\ Phase(o.name) \in Phases
    <2>1. o.name \in Names
        BY <1>0 DEF HelperInv, CallSafe, Holders, Waiters
    <2>. QED BY <1>0, <2>1 DEF Call, HelperTypeOK, Phase, Pod
<1>b. o.pc \in {"get", "follow"} /\ o.name \notin clashed => \A i \in 1..Len(o.chan) :
        podStarted(o.chan[i]) => Phase(o.name) \notin Starting
    BY DEF HelperInv, CallSafe, Phase
<1>1. CASE WatchPod(c)
    <2>1. CASE /\ NoFault /\ OnlyCall
               /\ call' = [call EXCEPT ![c].pc = "get", ![c].chan = << >>]
        <3>1. call' = [call EXCEPT ![c] = [o EXCEPT !.pc = "get", !.fails = o.fails, !.chan = << >>]]
            <4>1. [o EXCEPT !.pc = "get", !.chan = << >>]
                    = [o EXCEPT !.pc = "get", !.fails = o.fails, !.chan = << >>]
                BY <1>0, Zenon DEF Call
            <4>. QED BY <2>1, <4>1, Zenon
        <3>2. faults' \in Nat /\ UNCHANGED <<pods, secrets, plan>> /\ SameNames
            BY <1>0, <2>1 DEF NoFault, OnlyCall, SameNames, HelperTypeOK
        <3>. QED BY <1>0, <1>a, <3>1, <3>2, WatchKeeps, Zenon
    <2>. QED BY <1>0, <1>1, <2>1, RetryKeeps DEF WatchPod
<1>2. CASE GetPod(c)
    <2>0. o.pc = "get"
        BY <1>2 DEF GetPod, At
    <2>1. CASE /\ NoFault /\ OnlyCall /\ call' = [call EXCEPT ![c] = Over(o, "error")]
        <3>1. faults' \in Nat /\ UNCHANGED <<pods, secrets, plan>> /\ SameNames
            BY <1>0, <2>1 DEF NoFault, OnlyCall, SameNames, HelperTypeOK
        <3>. QED BY <1>0, <2>1, <3>1, CallEnds, Zenon
    <2>2. CASE Sighted(c, IF Phase(o.name) = "ending" THEN "running" ELSE Phase(o.name), o.chan)
        <3>. DEFINE ph == IF Phase(o.name) = "ending" THEN "running" ELSE Phase(o.name)
        <3>1. ph \in Phases /\ (podStarted(ph) => Phase(o.name) \notin Starting)
            BY <1>a DEF Phases, podStarted, Starting
        <3>. HIDE DEF ph
        <3>2. Sighted(c, ph, o.chan)
            BY <2>2 DEF ph
        <3>. QED BY <1>0, <1>a, <1>b, <2>0, <3>1, <3>2, SightedKeeps
    <2>. QED BY <1>0, <1>2, <2>1, <2>2, RetryKeeps DEF GetPod
<1>3. CASE followPodWatch(c)
    <2>0. o.pc = "follow" /\ o.chan # << >>
        BY <1>3 DEF followPodWatch, At
    <2>1. CASE NoFault /\ OnlyCall /\ call' = [call EXCEPT ![c] = Over(o, "error")]
        <3>1. faults' \in Nat /\ UNCHANGED <<pods, secrets, plan>> /\ SameNames
            BY <1>0, <2>1 DEF NoFault, OnlyCall, SameNames, HelperTypeOK
        <3>. QED BY <1>0, <2>1, <3>1, CallEnds, Zenon
    <2>2. CASE Sighted(c, Head(o.chan), Tail(o.chan))
        <3>. DEFINE t == o.chan
        <3>1. Head(t) \in Phases /\ Tail(t) \in Seq(Phases) /\ Head(t) = t[1] /\ 1 \in 1..Len(t)
            BY <1>a, <2>0
        <3>2. \A i \in 1..Len(Tail(t)) : i + 1 \in 1..Len(t) /\ Tail(t)[i] = t[i + 1]
            BY <1>a, <2>0
        <3>3. o.name \notin clashed =>
                /\ podStarted(Head(t)) => Phase(o.name) \notin Starting
                /\ \A i \in 1..Len(Tail(t)) : podStarted(Tail(t)[i]) => Phase(o.name) \notin Starting
            BY <1>b, <2>0, <3>1, <3>2
        <3>. HIDE DEF t
        <3>4. Sighted(c, Head(t), Tail(t))
            BY <2>2 DEF t
        <3>. QED BY <1>0, <3>1, <3>3, <3>4, SightedKeeps, Zenon
    <2>. QED BY <1>3, <2>1, <2>2 DEF followPodWatch
<1>4. CASE WatchEnds(c)
    <2>1. call' = [call EXCEPT ![c] = [o EXCEPT !.pc = "watch", !.fails = o.fails, !.chan = << >>]]
        <3>1. [o EXCEPT !.pc = "watch", !.chan = << >>]
                = [o EXCEPT !.pc = "watch", !.fails = o.fails, !.chan = << >>]
            BY <1>0, Zenon DEF Call
        <3>. QED BY <1>4, <3>1, Zenon DEF WatchEnds
    <2>2. faults' \in Nat /\ UNCHANGED <<pods, secrets, plan>> /\ SameNames
        BY <1>0, <1>4 DEF WatchEnds, Fault, OnlyCall, SameNames, HelperTypeOK
    <2>. QED BY <1>0, <1>a, <2>1, <2>2, WatchKeeps, Zenon
<1>5. CASE check(c) \/ CtxDone(c)
    <2>1. faults' \in Nat /\ UNCHANGED <<pods, secrets, plan>> /\ SameNames
        BY <1>0, <1>5 DEF check, CtxDone, NoFault, Fault, OnlyCall, SameNames, HelperTypeOK
    <2>2. call' = [call EXCEPT ![c] = Over(o, "error")]
        BY <1>5 DEF check, CtxDone
    <2>. QED BY <1>0, <2>1, <2>2, CallEnds, Zenon
<1>. QED BY <1>1, <1>2, <1>3, <1>4, <1>5 DEF Look

\* The call begins, or dies.
LEMMA EdgesKeep ==
    ASSUME HelperInv, NEW c \in Calls, RunHelper(c) \/ Crash(c)
    PROVE  HelperInv'
<1>0. HelperTypeOK /\ call[c] \in Call
    BY DEF HelperInv, HelperTypeOK
<1>1. CASE RunHelper(c)
    <2>1. PICK env \in BOOLEAN : call' = [call EXCEPT ![c].pc = "secret", ![c].env = env]
        BY <1>1, Zenon DEF RunHelper
    <2>. DEFINE q == [call[c] EXCEPT !.pc = "secret", !.env = env]
    <2>2. q \in Call /\ q.pc = "secret"
        BY <1>0, Zenon DEF Call
    <2>3. call' = [call EXCEPT ![c] = q]
        BY <2>1, Zenon
    <2>. HIDE DEF q
    <2>4. q.pc \notin Holders /\ CallSafe(q, pods, secrets', clashed)
        BY <2>2, Settled DEF Holders
    <2>5. UNCHANGED <<pods, secrets, plan>> /\ SameNames /\ faults' \in Nat
        BY <1>0, <1>1, Zenon DEF RunHelper, SameNames, HelperTypeOK
    <2>. QED BY <2>2, <2>3, <2>4, <2>5, CallOnly, Zenon
<1>2. CASE Crash(c)
    <2>1. UNCHANGED <<pods, secrets, plan>> /\ SameNames /\ faults' \in Nat
        BY <1>0, <1>2 DEF Crash, OnlyCall, SameNames, Fault, HelperTypeOK
    <2>2. call' = [call EXCEPT ![c] = [Idle EXCEPT !.pc = "done", !.result = "none"]]
        BY <1>2 DEF Crash
    <2>. QED BY <2>1, <2>2, CallEnds, Zenon
<1>. QED BY <1>1, <1>2

\* removeHelper: the pod is deleted, then the Secret.
LEMMA RemoveKeeps ==
    ASSUME HelperInv, NEW c \in Calls, removeHelper(c)
    PROVE  HelperInv'
<1>. DEFINE o == call[c]
            n == o.name
            q == [o EXCEPT !.pc = "unsecret"]
<1>0. /\ HelperTypeOK /\ o \in Call /\ o.pc = "remove" /\ UNCHANGED <<secrets, plan>> /\ SameNames
      /\ CallSafe(o, pods, secrets, clashed) /\ o.pc \in Holders
    BY DEF HelperInv, HelperTypeOK, removeHelper, At, Holders
<1>1. n \in Names
    BY <1>0 DEF CallSafe
<1>2. q \in Call /\ q.pc = "unsecret" /\ q.name = n /\ q.env = o.env /\ q.chan = o.chan
    BY <1>0, Zenon DEF Call
<1>. HIDE DEF q
<1>3. CASE UNCHANGED pods /\ call' = [call EXCEPT ![c].pc = "unsecret"] /\ (NoFault \/ Fault)
    <2>1. call' = [call EXCEPT ![c] = q] /\ faults' \in Nat
        BY <1>0, <1>3 DEF q, NoFault, Fault, HelperTypeOK
    <2>2. CallSafe(q, pods, secrets', clashed)
        BY <1>1, <1>2, Settled
    <2>. QED BY <1>0, <1>2, <1>3, <2>1, <2>2, CallOnly, Zenon
<1>4. CASE /\ NoFault /\ Phase(n) \notin {"none", "ending"} /\ PodTo(n, Deleted(n))
           /\ call' = [Notify(n, Deleted(n)) EXCEPT ![c].pc = "unsecret"]
    <2>. DEFINE ph == Deleted(n)
                f == Notify(n, ph)
                w == IF ph = "none" THEN NoPod ELSE [pods[n] EXCEPT !.phase = ph]
    <2>1. ph \in {"none", "ending"} /\ ph \in Phases /\ ~Listening(o)
        BY <1>0 DEF Deleted, Phases, Listening
    <2>2. w \in Pod /\ w.phase = ph
        <3>1. pods[n] \in Pod
            BY <1>0, <1>1 DEF HelperTypeOK
        <3>. HIDE DEF ph
        <3>2. CASE ph = "none"
            BY <3>2 DEF NoPod, Phases, Pod
        <3>3. CASE ph # "none"
            BY <2>1, <3>1, <3>3 DEF Pod
        <3>. QED BY <3>2, <3>3
    <2>3. pods' = [pods EXCEPT ![n] = w]
        BY <1>4 DEF PodTo
    <2>. HIDE DEF ph, w
    <2>4. /\ f \in [Calls -> Call] /\ f[c] = o
          /\ \A d \in Calls :
                /\ f[d].pc = call[d].pc /\ f[d].name = call[d].name /\ f[d].env = call[d].env
                /\ f[d].chan = call[d].chan \/ (call[d].name = n /\ f[d].chan = Append(call[d].chan, ph))
        BY <1>0, <1>1, <2>1, Notified, Zenon
    <2>5. call' = [f EXCEPT ![c] = q]
        <3>1. call' = [f EXCEPT ![c] = [f[c] EXCEPT !.pc = "unsecret"]]
            BY <1>4, Zenon DEF ph
        <3>. QED BY <2>4, <3>1, Zenon DEF q
    <2>. HIDE DEF f
    <2>6. call' \in [Calls -> Call] /\ call'[c] = q /\ \A d \in Calls \ {c} : call'[d] = f[d]
        BY <1>2, <2>4, <2>5
    <2>7. \A d \in Calls :
            /\ call'[d].pc = call[d].pc \/ (call'[d].pc = "unsecret" /\ call[d].pc = "remove")
            /\ call'[d].name = call[d].name /\ call'[d].env = call[d].env
            /\ \/ call'[d].chan = call[d].chan
               \/ call[d].name = n /\ call'[d].chan = Append(call[d].chan, ph)
        <3>. TAKE d \in Calls
        <3>1. CASE d = c
            BY <1>0, <1>2, <2>6, <3>1
        <3>2. CASE d # c
            BY <2>4, <2>6, <3>2
        <3>. QED BY <3>1, <3>2
    <2>8. /\ Phase(n) # "none" /\ plan' \subseteq Names /\ faults' \in Nat /\ secrets' = secrets
          /\ w.phase \notin Starting
        BY <1>0, <1>4, <2>1, <2>2 DEF NoFault, HelperTypeOK, Starting
    <2>. HIDE DEF n
    <2>. QED BY <1>0, <1>1, <2>1, <2>2, <2>3, <2>6, <2>7, <2>8, PodMoves, Zenon
<1>. QED BY <1>3, <1>4 DEF removeHelper

\* deleteHelperSecret: the last thing the pod's caller does.
LEMMA UnsecretKeeps ==
    ASSUME HelperInv, NEW c \in Calls, deleteHelperSecret(c)
    PROVE  HelperInv'
<1>. DEFINE o == call[c]
            q == [Idle EXCEPT !.pc = "done", !.result = o.result]
<1>0. /\ HelperTypeOK /\ o \in Call /\ o.pc = "unsecret" /\ UNCHANGED <<pods, plan>> /\ SameNames
      /\ o.pc \in Holders
    BY DEF HelperInv, HelperTypeOK, deleteHelperSecret, At, Holders
<1>2. q \in Call /\ q.pc = "done"
    <2>1. o.result \in {"none", "ok", "error"}
        BY <1>0 DEF Call
    <2>. QED BY <1>0, <2>1, Ends, ZenonT(60)
<1>3. call' = [call EXCEPT ![c] = q]
    BY DEF deleteHelperSecret
<1>4. (secrets' = secrets \/ secrets' = secrets \ {call[c].name}) /\ faults' \in Nat
    BY <1>0 DEF deleteHelperSecret, NoFault, Fault, HelperTypeOK
<1>. HIDE DEF q
<1>5. q.pc \notin Holders /\ CallSafe(q, pods, secrets', clashed)
    BY <1>2, Settled DEF Holders
<1>. QED BY <1>0, <1>2, <1>3, <1>4, <1>5, CallOnly, Zenon

-----------------------------------------------------------------------------
(* The cluster and reconcile. *)

\* A pod changes its phase under the eyes of those who watch it.
LEMMA PodTurns ==
    ASSUME HelperInv, NEW n \in Names, NEW ph \in Phases \ {"pending"}, PodTo(n, ph),
           Phase(n) # "none", ph = "failing" => Phase(n) = "pending", SameNames,
           call' = Notify(n, ph), plan' \subseteq Names, faults' \in Nat,
           secrets' = secrets \/ (secrets' = secrets \ {n} /\ ph = "none")
    PROVE  HelperInv'
<1>. DEFINE w == IF ph = "none" THEN NoPod ELSE [pods[n] EXCEPT !.phase = ph]
<1>0. HelperTypeOK /\ pods[n] \in Pod
    BY DEF HelperInv, HelperTypeOK
<1>1. w \in Pod /\ w.phase = ph /\ (ph # "none" => w.env = pods[n].env)
    <2>1. CASE ph = "none"
        BY <2>1 DEF NoPod, Phases, Pod
    <2>2. CASE ph # "none"
        BY <1>0, <2>2, Zenon DEF Pod
    <2>. QED BY <2>1, <2>2
<1>2. pods' = [pods EXCEPT ![n] = w]
    BY DEF PodTo
<1>. HIDE DEF w
<1>3. /\ call' \in [Calls -> Call]
      /\ \A d \in Calls :
            /\ call'[d].pc = call[d].pc \/ (call'[d].pc = "unsecret" /\ call[d].pc = "remove")
            /\ call'[d].name = call[d].name /\ call'[d].env = call[d].env
            /\ \/ call'[d].chan = call[d].chan
               \/ call[d].name = n /\ call'[d].chan = Append(call[d].chan, ph)
    <2>. DEFINE f == Notify(n, ph)
    <2>1. /\ f \in [Calls -> Call]
          /\ \A d \in Calls :
                /\ f[d].pc = call[d].pc /\ f[d].name = call[d].name /\ f[d].env = call[d].env
                /\ f[d].chan = call[d].chan \/ (call[d].name = n /\ f[d].chan = Append(call[d].chan, ph))
        <3>1. ph \in Phases /\ n \in Names
            OBVIOUS
        <3>. QED BY ONLY <1>0, <3>1, Notified
    <2>2. call' = f
        OBVIOUS
    <2>. HIDE DEF f
    <2>. QED BY <2>1, <2>2
<1>4. /\ w.phase \in Starting => Phase(n) \in Starting /\ w.env = pods[n].env
      /\ podStarted(ph) => w.phase \notin Starting
    BY <1>1 DEF Starting, podStarted
<1>5. secrets' = secrets \/ (secrets' = secrets \ {n} /\ w.phase = "none")
    BY <1>1
<1>. QED BY <1>1, <1>2, <1>3, <1>4, <1>5, PodMoves, Zenon

\* A pod goes on, is evicted, grows old or is collected.
LEMMA PodsKeep ==
    ASSUME HelperInv, NEW n \in Names, Reconciling(n) \/ Kubelet(n) \/ Evict(n) \/ GrowOld(n)
    PROVE  HelperInv'
<1>0. HelperTypeOK
    BY DEF HelperInv
<1>1. CASE Kubelet(n) \/ Evict(n)
    <2>1. UNCHANGED <<secrets, plan>> /\ SameNames /\ faults' \in Nat /\ plan' \subseteq Names
        BY <1>0, <1>1 DEF Kubelet, Evict, Becomes, Fault, NoFault, HelperTypeOK
    <2>2. PICK ph \in Phases \ {"pending"} :
            /\ PodTo(n, ph) /\ call' = Notify(n, ph) /\ Phase(n) # "none"
            /\ ph = "failing" => Phase(n) = "pending"
        BY <1>1 DEF Kubelet, Evict, Becomes, Phases
    <2>. QED BY <2>1, <2>2, PodTurns
<1>2. CASE RemoveOrphanHelper(n) /\ Stopped(n)
    <2>1. /\ PodTo(n, "none") /\ call' = Notify(n, "none") /\ Phase(n) # "none" /\ SameNames
          /\ secrets' = secrets \/ secrets' = secrets \ {n}
        BY <1>2 DEF RemoveOrphanHelper, StopRemove, Stopped
    <2>2. faults' \in Nat /\ plan' \subseteq Names /\ "none" \in Phases \ {"pending"}
        BY <1>0, <1>2 DEF RemoveOrphanHelper, StopRemove, Fault, NoFault, HelperTypeOK, Phases
    <2>. QED BY <2>1, <2>2, PodTurns
<1>3. CASE PlanOrphanHelper(n) \/ (RemoveOrphanHelper(n) /\ ~Stopped(n))
    <2>1. UNCHANGED <<pods, secrets, drawn, clashed, call, faults>> /\ plan' \subseteq Names
        BY <1>0, <1>3 DEF PlanOrphanHelper, RemoveOrphanHelper, SameNames, NoFault, HelperTypeOK
    <2>. QED BY <1>0, <2>1 DEF HelperInv, HelperTypeOK, NamesInv, Phase
<1>4. CASE GrowOld(n)
    <2>. DEFINE w == [pods[n] EXCEPT !.old = TRUE]
    <2>0. pods[n] \in Pod
        BY <1>0 DEF HelperTypeOK
    <2>1. w \in Pod /\ w.phase = pods[n].phase /\ w.phase \notin Starting /\ Phase(n) # "none"
        <3>1. pods[n].phase \in {"succeeded", "failed"}
            BY <1>4 DEF GrowOld, Stopped, Phase
        <3>2. w \in Pod /\ w.phase = pods[n].phase
            BY <2>0, Zenon DEF Pod
        <3>. HIDE DEF w
        <3>. QED BY <3>1, <3>2 DEF Starting, Phase
    <2>2. /\ UNCHANGED <<secrets, drawn, clashed, call, plan, faults>> /\ SameNames
          /\ pods' = [pods EXCEPT ![n] = w]
        BY <1>4 DEF GrowOld, SameNames
    <2>. HIDE DEF w
    <2>3. /\ call' \in [Calls -> Call] /\ plan' \subseteq Names /\ faults' \in Nat /\ secrets' = secrets
          /\ "none" \in Phases /\ ~podStarted("none")
        BY <1>0, <2>2 DEF HelperTypeOK, Phases, podStarted
    <2>4. \A d \in Calls : /\ call'[d].pc = call[d].pc /\ call'[d].name = call[d].name
                           /\ call'[d].env = call[d].env /\ call'[d].chan = call[d].chan
        BY <2>2
    <2>. QED BY <2>1, <2>2, <2>3, <2>4, PodMoves, Zenon
<1>. QED BY <1>1, <1>2, <1>3, <1>4 DEF Reconciling

\* Every step keeps the invariant.
LEMMA HelperStep ==
    ASSUME HelperInv, [HelperNext]_vars
    PROVE  HelperInv'
<1>1. CASE UNCHANGED vars
    BY <1>1 DEF vars, HelperInv, HelperTypeOK, NamesInv, Phase
<1>2. ASSUME NEW c \in Calls, Step(c)
      PROVE  HelperInv'
    BY <1>2, CreateSecretKeeps, CreatePodKeeps, WaitKeeps, RemoveKeeps, UnsecretKeeps DEF Step
<1>. QED BY <1>1, <1>2, EdgesKeep, WaitKeeps, PodsKeep DEF HelperNext

\* The Secret of a helper whose container has not started is there as long as its
\* caller waits for it and no second helper has gone on under its name (createHelper,
\* helperProgress.observe, StopRemove): for any number of calls, with an environment
\* or without, whatever names they draw and however they fail or die.
THEOREM SecretsKept == HelperSpec => []SecretWhileNeeded
<1>1. HelperInit => HelperInv
    <2>. SUFFICES ASSUME HelperInit PROVE HelperInv
        OBVIOUS
    <2>1. Idle \in Call /\ Idle.pc = "idle"
        BY DEF Idle, Call
    <2>2. NoPod \in Pod /\ NoPod.phase = "none"
        BY DEF NoPod, Phases, Pod
    <2>3. \A c \in Calls : call[c] = Idle
        BY <2>1, Zenon DEF HelperInit
    <2>4. HelperTypeOK
        BY <2>1, <2>2, HelperAssumption DEF HelperInit, HelperTypeOK
    <2>5. Idle.pc \notin Holders /\ CallSafe(Idle, pods, secrets, clashed)
        BY <2>1, Settled DEF Holders
    <2>6. \A n \in Names : Phase(n) = "none"
        BY <2>2 DEF HelperInit, Phase
    <2>. QED BY <2>3, <2>4, <2>5, <2>6 DEF HelperInv, NamesInv
<1>2. HelperInv /\ [HelperNext]_vars => HelperInv'
    BY HelperStep
<1>3. HelperInv => SecretWhileNeeded
    BY DEF HelperInv, CallSafe, SecretWhileNeeded, Waiting, Phase, Waiters, Starting
<1>. QED BY <1>1, <1>2, <1>3, PTL DEF HelperSpec

-----------------------------------------------------------------------------
(* The leader gate and the drain. *)

\* Moving an elector, a marker loop or a request keeps its other fields.
LEMMA ElectorMoved ==
    ASSUME NEW e \in ElectorState, NEW pc \in {"contend", "lead", "ended", "stopping", "exit"}
    PROVE  [e EXCEPT !.pc = pc] \in ElectorState
BY DEF ElectorState

\* A marker loop that moves stays a marker loop.
LEMMA MarkerMoved ==
    ASSUME NEW e \in MarkerState, NEW pc \in {"off", "get", "patch", "list", "clear", "wait"}
    PROVE  [e EXCEPT !.pc = pc] \in MarkerState
BY DEF MarkerState

\* The same when it also takes the list of labelled pods.
LEMMA MarkerSaw ==
    ASSUME NEW e \in MarkerState, NEW pc \in {"off", "get", "patch", "list", "clear", "wait"},
           NEW seen \in SUBSET Replicas
    PROVE  [e EXCEPT !.pc = pc, !.seen = seen] \in MarkerState
BY Zenon DEF MarkerState

\* A request that moves stays a request.
LEMMA MutMoved ==
    ASSUME NEW e \in MutState, NEW pc \in {"none", "admitted", "running", "done"}
    PROVE  [e EXCEPT !.pc = pc] \in MutState
BY DEF MutState

\* So does one that is cancelled.
LEMMA MutCancelled == ASSUME NEW e \in MutState PROVE [e EXCEPT !.cancelled = TRUE] \in MutState
BY Zenon DEF MutState

\* Set leaves a gate a gate.
LEMMA GateSet == ASSUME LeadershipTypeOK, NEW r \in Replicas, NEW open \in BOOLEAN, SetGate(r, open)
                 PROVE  gate' \in [Replicas -> GateState]
<1>1. gate[r] \in GateState
    BY DEF LeadershipTypeOK
<1>2. [open |-> open, term |-> IF open /\ ~gate[r].open THEN gate[r].term + 1 ELSE gate[r].term]
        \in GateState
    BY <1>1 DEF GateState
<1> QED
    BY <1>2 DEF SetGate, LeadershipTypeOK

\* A label patch of any outcome leaves pods labelled and patches outstanding.
LEMMA PatchTyped ==
    ASSUME LeadershipTypeOK, NEW q \in Replicas, NEW on \in BOOLEAN, Patch(q, on)
    PROVE  labels' \subseteq Replicas /\ late' \subseteq [pod: Replicas, on: BOOLEAN]
           /\ mishaps' \in 0..MaxMishaps
BY LeadershipAssumption DEF Patch, LeadershipTypeOK, Mishap, NoMishap

\* One move of the marker loop.
LEMMA MarkGoTyped ==
    ASSUME LeadershipTypeOK, NEW r \in Replicas, NEW seen \in SUBSET Replicas,
           NEW next \in {"off", "get", "patch", "list", "clear", "wait"}, MarkGo(r, next, seen)
    PROVE  marker' \in [Replicas -> MarkerState]
BY MarkerSaw, Zenon DEF MarkGo, LeadershipTypeOK

\* The elector's own steps keep the types.
LEMMA ElectTyped == ASSUME LeadershipTypeOK, NEW r \in Replicas, Elect(r) PROVE LeadershipTypeOK'
<1> USE LeadershipAssumption DEF LeadershipTypeOK
<1>1. CASE Acquire(r)
    <2>1. lease.terms + 1 \in 1..MaxTerm
        BY <1>1 DEF Acquire
    <2>2. lease' \in [holder: Replicas \cup {Nobody}, terms: 0..MaxTerm] /\ lease'.terms \in 1..MaxTerm
        BY <1>1, <2>1 DEF Acquire
    <2>3. [pc |-> "lead", term |-> lease'.terms] \in ElectorState
        BY <2>2 DEF ElectorState
    <2> QED
        BY <1>1, <2>2, <2>3 DEF Acquire, markVars
<1>2. CASE RenewFails(r)
    <2>1. lease' \in [holder: Replicas \cup {Nobody}, terms: 0..MaxTerm]
        BY <1>2 DEF RenewFails
    <2>2. elector' \in [Replicas -> ElectorState]
        BY <1>2, ElectorMoved, Zenon DEF RenewFails
    <2> QED
        BY <1>2, <2>1, <2>2 DEF RenewFails, Mishap, markVars
<1>3. CASE ElectionStopped(r)
    <2>1. lease' \in [holder: Replicas \cup {Nobody}, terms: 0..MaxTerm]
        BY <1>3 DEF ElectionStopped
    <2>2. elector' \in [Replicas -> ElectorState]
        BY <1>3, ElectorMoved, Zenon DEF ElectionStopped
    <2>3. mishaps' \in 0..MaxMishaps
        BY <1>3 DEF ElectionStopped, Mishap, NoMishap
    <2> QED
        BY <1>3, <2>1, <2>2, <2>3 DEF ElectionStopped, markVars
<1>4. CASE ReplicaDies(r)
    <2>1. elector' \in [Replicas -> ElectorState] /\ marker' \in [Replicas -> MarkerState]
        BY <1>4, ElectorMoved, MarkerMoved, Zenon DEF ReplicaDies
    <2>2. gate' \in [Replicas -> GateState]
        BY <1>4, ZenonT(60) DEF ReplicaDies, GateState
    <2>3. muts' \in [Muts -> MutState]
        BY <1>4, MutMoved, Zenon DEF ReplicaDies
    <2> QED
        BY <1>4, <2>1, <2>2, <2>3 DEF ReplicaDies, Mishap
<1> QED
    BY <1>1, <1>2, <1>3, <1>4 DEF Elect

\* The callbacks and the marker loop keep the types.
LEMMA LeadTyped == ASSUME LeadershipTypeOK, NEW r \in Replicas, Lead(r) PROVE LeadershipTypeOK'
<1> USE DEF LeadershipTypeOK
<1>1. ASSUME NEW t \in pending[r], OnStartedLeading(r, t) PROVE LeadershipTypeOK'
    <2>1. t \in 1..MaxTerm
        OBVIOUS
    <2>2. [pc |-> "get", term |-> t, seen |-> {}] \in MarkerState
        BY <2>1 DEF MarkerState
    <2>3. gate' \in [Replicas -> GateState]
        BY <1>1, GateSet, Zenon DEF OnStartedLeading
    <2>4. marker' \in [Replicas -> MarkerState]
        BY <1>1, <2>2, Zenon DEF OnStartedLeading
    <2>5. pending' \in [Replicas -> SUBSET (1..MaxTerm)] /\ loops' \in [Replicas -> SUBSET (1..MaxTerm)]
        <3>1. pending[r] \ {t} \in SUBSET (1..MaxTerm) /\ loops[r] \cup {t} \in SUBSET (1..MaxTerm)
            BY <2>1
        <3> QED
            BY <1>1, <3>1, Zenon DEF OnStartedLeading
    <2> QED
        BY <1>1, <2>3, <2>4, <2>5 DEF OnStartedLeading
<1>2. CASE LoopReturns(r)
    BY <1>2 DEF LoopReturns, electVars, markVars
<1>3. CASE OnStoppedLeading(r)
    <2>1. gate' \in [Replicas -> GateState]
        BY <1>3, GateSet, Zenon DEF OnStoppedLeading
    <2> QED
        BY <1>3, <2>1, ElectorMoved, Zenon DEF OnStoppedLeading, markVars
<1>4. CASE Unmark(r)
    <2>1. labels' \subseteq Replicas /\ late' \subseteq [pod: Replicas, on: BOOLEAN]
          /\ mishaps' \in 0..MaxMishaps
        BY <1>4, PatchTyped, Zenon DEF Unmark
    <2>2. elector' \in [Replicas -> ElectorState]
        BY <1>4, ElectorMoved, Zenon DEF Unmark
    <2>3. muts' \in [Muts -> MutState]
        BY <1>4, MutMoved, Zenon DEF Unmark
    <2> QED
        BY <1>4, <2>1, <2>2, <2>3 DEF Unmark
<1>5. CASE Mark(r)
    <2>1. /\ marker' \in [Replicas -> MarkerState]
          /\ labels' \subseteq Replicas /\ late' \subseteq [pod: Replicas, on: BOOLEAN]
          /\ mishaps' \in 0..MaxMishaps
        <3>1. CASE MarkGet(r)
            BY <3>1, MarkGoTyped, LeadershipAssumption DEF MarkGet, Mishap, NoMishap
        <3>2. CASE MarkSelf(r)
            BY <3>2, MarkGoTyped, PatchTyped, Zenon DEF MarkSelf
        <3>3. CASE MarkList(r)
            BY <3>3, MarkGoTyped, LeadershipAssumption DEF MarkList, Mishap, NoMishap
        <3>4. CASE MarkClear(r)
            <4>1. marker[r].seen \subseteq Replicas
                BY DEF MarkerState
            <4> QED
                BY <3>4, <4>1, MarkGoTyped, PatchTyped, Zenon DEF MarkClear
        <3>5. CASE MarkWait(r)
            BY <3>5, MarkGoTyped DEF MarkWait, NoMishap
        <3> QED
            BY <1>5, <3>1, <3>2, <3>3, <3>4, <3>5 DEF Mark
    <2> QED
        BY <1>5, <2>1 DEF Mark, electVars
<1> QED
    BY <1>1, <1>2, <1>3, <1>4, <1>5 DEF Lead

\* Requests keep the types.
LEMMA MutateTyped == ASSUME LeadershipTypeOK, NEW m \in Muts, Mutate(m) PROVE LeadershipTypeOK'
<1> USE DEF LeadershipTypeOK, OnlyMuts, electVars, markVars
<1>1. ASSUME NEW r \in Replicas, Admit(m, r) PROVE LeadershipTypeOK'
    <2>1. [pc |-> "admitted", at |-> r, term |-> gate[r].term, cancelled |-> FALSE] \in MutState
        BY DEF MutState, GateState
    <2> QED
        BY <1>1, <2>1 DEF Admit
<1>2. CASE Begin(m)
    BY <1>2, MutMoved, Zenon DEF Begin
<1>3. CASE CancelTerm(m) \/ CancelLate(m)
    BY <1>3, MutCancelled DEF CancelTerm, CancelLate
<1>4. CASE Finish(m)
    BY <1>4, MutMoved, Zenon DEF Finish
<1> QED
    BY <1>1, <1>2, <1>3, <1>4 DEF Mutate

\* The shutdown keeps the types.
LEMMA ShutdownTyped == ASSUME LeadershipTypeOK, NEW r \in Replicas, Shutdown(r) PROVE LeadershipTypeOK'
BY Zenon DEF Shutdown, Sigterm, Drained, BudgetOver, GraceOver, LeadershipTypeOK, OnlyServer,
   electVars, markVars

\* Every step keeps the types.
LEMMA TypeInductive == LeadershipTypeOK /\ [LeadershipNext]_leadershipVars => LeadershipTypeOK'
<1> SUFFICES ASSUME LeadershipTypeOK, [LeadershipNext]_leadershipVars PROVE LeadershipTypeOK'
    OBVIOUS
<1>1. CASE LeaseExpires
    BY <1>1 DEF LeaseExpires, LeadershipTypeOK, markVars
<1>2. ASSUME NEW x \in late, Land(x) PROVE LeadershipTypeOK'
    BY <1>2 DEF Land, LeadershipTypeOK, electVars
<1>3. CASE UNCHANGED leadershipVars
    BY <1>3 DEF leadershipVars, electVars, markVars, LeadershipTypeOK
<1> QED
    BY <1>1, <1>2, <1>3, ElectTyped, LeadTyped, MutateTyped, ShutdownTyped DEF LeadershipNext

\* Electors, gates, marker loops and requests stay in states the code knows.
THEOREM LeadershipTyped == LeadershipSpec => []LeadershipTypeOK
<1>1. LeadershipInit => LeadershipTypeOK
    BY LeadershipAssumption DEF LeadershipInit, LeadershipTypeOK, ElectorState, GateState,
       MarkerState, MutState
<1> QED
    BY <1>1, TypeInductive, PTL DEF LeadershipSpec

\* The Lease behind the gate: a replica whose elector leads holds the Lease, and
\* an open gate belongs to a leading elector or to one that OnStoppedLeading has
\* yet to be called for.
LeaseInv ==
    /\ \A r \in Replicas : elector[r].pc = "lead" => lease.holder = r
    /\ \A r \in Replicas : gate[r].open => elector[r].pc \in {"lead", "ended"}

\* Each step keeps the Lease and the gates in line.
LEMMA LeaseInductive == LeadershipTypeOK /\ LeaseInv /\ [LeadershipNext]_leadershipVars => LeaseInv'
<1> SUFFICES ASSUME LeadershipTypeOK, LeaseInv, [LeadershipNext]_leadershipVars PROVE LeaseInv'
    OBVIOUS
<1> USE LeadershipAssumption DEF LeadershipTypeOK, LeaseInv, ElectorState, GateState
<1>1. ASSUME NEW r \in Replicas, Elect(r) PROVE LeaseInv'
    <2>1. CASE Acquire(r)
        BY <2>1 DEF Acquire
    <2>2. CASE RenewFails(r)
        BY <2>2 DEF RenewFails
    <2>3. CASE ElectionStopped(r)
        BY <2>3 DEF ElectionStopped
    <2>4. CASE ReplicaDies(r)
        BY <2>4 DEF ReplicaDies
    <2> QED
        BY <1>1, <2>1, <2>2, <2>3, <2>4 DEF Elect
<1>2. ASSUME NEW r \in Replicas, Lead(r) PROVE LeaseInv'
    <2>1. ASSUME NEW t \in pending[r], OnStartedLeading(r, t) PROVE LeaseInv'
        BY <2>1 DEF OnStartedLeading, TermLive, SetGate
    <2>2. CASE LoopReturns(r)
        BY <2>2 DEF LoopReturns, electVars
    <2>3. CASE OnStoppedLeading(r)
        BY <2>3 DEF OnStoppedLeading, SetGate
    <2>4. CASE Unmark(r)
        BY <2>4 DEF Unmark
    <2>5. CASE Mark(r)
        BY <2>5 DEF Mark, electVars
    <2> QED
        BY <1>2, <2>1, <2>2, <2>3, <2>4, <2>5 DEF Lead
<1>3. ASSUME NEW m \in Muts, Mutate(m) PROVE LeaseInv'
    BY <1>3 DEF Mutate, Admit, Begin, CancelTerm, CancelLate, Finish, OnlyMuts, electVars
<1>4. ASSUME NEW r \in Replicas, Shutdown(r) PROVE LeaseInv'
    BY <1>4 DEF Shutdown, Sigterm, Drained, BudgetOver, GraceOver, OnlyServer, electVars
<1>5. CASE LeaseExpires
    BY <1>5 DEF LeaseExpires
<1>6. ASSUME NEW x \in late, Land(x) PROVE LeaseInv'
    BY <1>6 DEF Land, electVars
<1>7. CASE UNCHANGED leadershipVars
    BY <1>7 DEF leadershipVars, electVars
<1> QED
    BY <1>1, <1>2, <1>3, <1>4, <1>5, <1>6, <1>7, Zenon DEF LeadershipNext

\* Only the leader takes writes, for any number of replicas and terms and
\* however late OnStartedLeading's goroutine runs: of two open gates one is
\* already stepping down.
THEOREM OnlyLeaderWrites == LeadershipSpec => []GateFollowsLease
<1>1. LeadershipInit => LeaseInv
    BY DEF LeadershipInit, LeaseInv
<1>2. LeaseInv => GateFollowsLease
    BY DEF LeaseInv, GateFollowsLease
<1> QED
    BY <1>1, <1>2, LeaseInductive, LeadershipTyped, PTL DEF LeadershipSpec

\* No request starts or stays running behind a drain that reported success:
\* begin refuses once stopAdmitting has run.
LEMMA DrainInductive == LeadershipTypeOK /\ DrainedMeansIdle /\ [LeadershipNext]_leadershipVars
                            => DrainedMeansIdle'
<1> SUFFICES ASSUME LeadershipTypeOK, DrainedMeansIdle, [LeadershipNext]_leadershipVars
             PROVE  DrainedMeansIdle'
    OBVIOUS
<1> USE DEF LeadershipTypeOK, DrainedMeansIdle, Running, MutState
<1>0. ASSUME UNCHANGED <<muts, server, clean>> PROVE DrainedMeansIdle'
    BY <1>0
<1>1. ASSUME NEW r \in Replicas, Elect(r) PROVE DrainedMeansIdle'
    BY <1>1 DEF Elect, Acquire, RenewFails, ElectionStopped, ReplicaDies
<1>2. ASSUME NEW r \in Replicas, Lead(r) PROVE DrainedMeansIdle'
    <2>1. CASE Unmark(r)
        <3>1. \A m \in Muts : muts'[m].at = muts[m].at /\ muts'[m].pc \in {muts[m].pc, "done"}
            BY <2>1 DEF Unmark
        <3> QED
            BY <2>1, <3>1 DEF Unmark
    <2> QED
        BY <1>0, <1>2, <2>1, ZenonT(30) DEF Lead, OnStartedLeading, LoopReturns, OnStoppedLeading, Mark
<1>3. ASSUME NEW m \in Muts, Mutate(m) PROVE DrainedMeansIdle'
    <2>1. ASSUME NEW r \in Replicas, Admit(m, r) PROVE DrainedMeansIdle'
        <3>1. \A q \in Muts : muts'[q].pc = "running" => q # m /\ muts'[q] = muts[q]
            BY <2>1 DEF Admit
        <3> QED
            BY <2>1, <3>1 DEF Admit, OnlyMuts
    <2>2. CASE Begin(m)
        <3>1. \A q \in Muts : q # m => muts'[q] = muts[q]
            BY <2>2 DEF Begin
        <3>2. muts'[m].at = muts[m].at /\ (muts'[m].pc = "running" => server[muts[m].at] = "up")
            BY <2>2 DEF Begin
        <3> QED
            BY <2>2, <3>1, <3>2 DEF Begin, OnlyMuts
    <2>3. CASE CancelTerm(m) \/ CancelLate(m)
        <3>1. \A q \in Muts : muts'[q].at = muts[q].at /\ muts'[q].pc = muts[q].pc
            BY <2>3 DEF CancelTerm, CancelLate
        <3> QED
            BY <2>3, <3>1 DEF CancelTerm, CancelLate, OnlyMuts
    <2>4. CASE Finish(m)
        BY <2>4 DEF Finish, OnlyMuts
    <2> QED
        BY <1>3, <2>1, <2>2, <2>3, <2>4, Zenon DEF Mutate
<1>4. ASSUME NEW r \in Replicas, Shutdown(r) PROVE DrainedMeansIdle'
    <2>1. CASE Sigterm(r)
        BY <2>1 DEF Sigterm, OnlyServer
    <2>2. CASE Drained(r)
        BY <2>2 DEF Drained, Handlers, OnlyServer
    <2>3. CASE BudgetOver(r)
        BY <2>3 DEF BudgetOver, OnlyServer
    <2>4. CASE GraceOver(r)
        <3>1. clean'[r] = (Running(r) = {}) /\ muts' = muts
            BY <2>4 DEF GraceOver, OnlyServer
        <3>2. \A s \in Replicas : s # r => clean'[s] = clean[s] /\ server'[s] = server[s]
            BY <2>4 DEF GraceOver
        <3>3. \A s \in Replicas : Running(s)' = Running(s)
            BY <3>1
        <3>4. ASSUME NEW s \in Replicas, server'[s] = "down", clean'[s] PROVE Running(s)' = {}
            <4>1. CASE s = r
                BY <3>1, <3>3, <3>4, <4>1, Zenon
            <4>2. CASE s # r
                BY <3>2, <3>3, <3>4, <4>2, Zenon
            <4> QED
                BY <4>1, <4>2
        <3> QED
            BY <3>4
    <2> QED
        BY <1>4, <2>1, <2>2, <2>3, <2>4, Zenon DEF Shutdown
<1>5. CASE LeaseExpires \/ (\E x \in late : Land(x)) \/ UNCHANGED leadershipVars
    BY <1>0, <1>5 DEF LeaseExpires, Land, leadershipVars
<1> QED
    BY <1>1, <1>2, <1>3, <1>4, <1>5, Zenon DEF LeadershipNext

\* The Lease is given up by a clean shutdown only with no mutation in flight,
\* and none starts afterwards.
THEOREM LeaseGivenUpIdle == LeadershipSpec => []DrainedMeansIdle
<1>1. LeadershipInit => DrainedMeansIdle
    BY DEF LeadershipInit, DrainedMeansIdle
<1> QED
    BY <1>1, DrainInductive, LeadershipTyped, PTL DEF LeadershipSpec
=============================================================================
