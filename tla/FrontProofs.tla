----------------------------- MODULE FrontProofs -----------------------------
(***************************************************************************)
(* The two services in front of branchd.  The router's accounting for any  *)
(* number of connections, addresses and keys: slots, the cancel map, and   *)
(* where a cancel may go (Proxy).  The webhook's per-branch queues for any *)
(* number of pull requests, workers, deliveries and failures: one job at a *)
(* time, one live comment, and nothing left behind (Webhook).              *)
(***************************************************************************)
EXTENDS Proxy, Webhook, TLAPS, Integers, FiniteSetTheorems

\* The provers a leaf is tried with, unless it names its own.
USE SMTT(10), Zenon, SMTT(30)

-----------------------------------------------------------------------------
(* remove: what taking the first occurrence out of a sequence leaves.        *)

Positions(s, a) == {i \in DOMAIN s : s[i] = a}

\* Among some positions there is a first.
LEMMA FirstPosition ==
    ASSUME NEW I \in SUBSET Nat, I # {}
    PROVE  \E x \in I : \A y \in I : x <= y
<1>. DEFINE R == {ss \in Nat \X Nat : ss[1] < ss[2]}
<1>0. IsWellFoundedOn(R, Nat)
    BY NatLessThanWellFounded, Zenon DEF OpToRel
<1>1. PICK x \in I : \A y \in I : ~(<<y, x>> \in R)
    BY <1>0, WFMin, Zenon
<1>2. \A y \in I : x <= y
    <2>1. SUFFICES ASSUME NEW y \in I PROVE x <= y
        OBVIOUS
    <2>2. x \in Nat /\ y \in Nat /\ <<y, x>> \notin R
        BY <1>1
    <2>3. ~(y < x)
        BY <2>2
    <2>. QED BY <2>2, <2>3
<1>. QED BY <1>1, <1>2, Zenon

\* Cutting one position out closes the gap.
LEMMA CutOne ==
    ASSUME NEW S, NEW s \in Seq(S), NEW i \in 1..Len(s)
    PROVE  LET t == SubSeq(s, 1, i - 1) \o SubSeq(s, i + 1, Len(s)) IN
           /\ t \in Seq(S) /\ Len(t) = Len(s) - 1
           /\ \A j \in 1..Len(s) - 1 : t[j] = IF j < i THEN s[j] ELSE s[j + 1]
<1>. DEFINE l == SubSeq(s, 1, i - 1)
            r == SubSeq(s, i + 1, Len(s))
            t == l \o r
<1>1. Len(s) \in Nat /\ i \in Int /\ i - 1 \in Int /\ i + 1 \in Int
    OBVIOUS
<1>2. l \in Seq(S) /\ Len(l) = i - 1 /\ \A j \in 1..i - 1 : l[j] = s[j]
    BY <1>1
<1>3. r \in Seq(S) /\ Len(r) = Len(s) - i /\ \A j \in 1..Len(s) - i : r[j] = s[i + j]
    BY <1>1
<1>. HIDE DEF l, r
<1>4. t \in Seq(S) /\ Len(t) = Len(l) + Len(r)
    <2>1. l \in Seq(S) /\ r \in Seq(S)
        BY <1>2, <1>3
    <2>2. l \o r \in Seq(S)
        BY ONLY <2>1
    <2>3. Len(l \o r) = Len(l) + Len(r)
        BY ONLY <2>1
    <2>. QED BY <2>2, <2>3
<1>5. \A j \in 1..Len(l) + Len(r) : t[j] = IF j <= Len(l) THEN l[j] ELSE r[j - Len(l)]
    BY <1>2, <1>3
<1>. HIDE DEF t
<1>6. ASSUME NEW j \in 1..Len(s) - 1
      PROVE  t[j] = IF j < i THEN s[j] ELSE s[j + 1]
    <2>1. CASE j < i
        BY <1>1, <1>2, <1>3, <1>5, <2>1
    <2>2. CASE j >= i
        <3>1. j - (i - 1) \in 1..Len(s) - i /\ i + (j - (i - 1)) = j + 1
            BY <1>1, <2>2
        <3>2. t[j] = s[j + 1]
            BY <1>1, <1>2, <1>3, <1>5, <2>2, <3>1
        <3>. QED BY <1>1, <2>2, <3>2
    <2>3. j < i \/ j >= i
        BY <1>1
    <2>. QED BY <2>1, <2>2, <2>3, Zenon
<1>7. Len(t) = Len(s) - 1
    BY <1>1, <1>2, <1>3, <1>4
<1>. QED BY <1>4, <1>6, <1>7, Zenon DEF l, r, t

\* remove takes one entry of the address away and no other address's.
LEMMA WithoutFirstCounts ==
    ASSUME NEW S, NEW s \in Seq(S), NEW e, Positions(s, e) # {}
    PROVE  /\ WithoutFirst(s, e) \in Seq(S)
           /\ \A a : Cardinality(Positions(WithoutFirst(s, e), a))
                     = Cardinality(Positions(s, a)) - (IF a = e THEN 1 ELSE 0)
<1>. DEFINE First(i) == s[i] = e /\ \A j \in 1..i - 1 : s[j] # e
            i == CHOOSE k \in DOMAIN s : First(k)
            t == SubSeq(s, 1, i - 1) \o SubSeq(s, i + 1, Len(s))
<1>1. Len(s) \in Nat /\ DOMAIN s = 1..Len(s)
    OBVIOUS
<1>2. i \in Positions(s, e) /\ i \in 1..Len(s)
    <2>1. Positions(s, e) \in SUBSET Nat
        BY <1>1 DEF Positions
    <2>2. PICK x \in Positions(s, e) : \A y \in Positions(s, e) : x <= y
        BY <2>1, FirstPosition
    <2>3. x \in DOMAIN s /\ First(x)
        BY <1>1, <2>2 DEF Positions
    <2>4. i \in DOMAIN s /\ First(i)
        BY <2>3, Zenon
    <2>. QED BY <1>1, <2>4 DEF Positions
<1>3. WithoutFirst(s, e) = t
    BY <1>2, Zenon DEF WithoutFirst, Positions
<1>. HIDE DEF i
<1>4. /\ t \in Seq(S) /\ Len(t) = Len(s) - 1 /\ DOMAIN t = 1..Len(s) - 1
      /\ \A j \in 1..Len(s) - 1 : t[j] = IF j < i THEN s[j] ELSE s[j + 1]
    <2>1. /\ t \in Seq(S) /\ Len(t) = Len(s) - 1
          /\ \A j \in 1..Len(s) - 1 : t[j] = IF j < i THEN s[j] ELSE s[j + 1]
        BY <1>2, CutOne, Zenon
    <2>. HIDE DEF t
    <2>2. DOMAIN t = 1..Len(t)
        BY <2>1
    <2>. QED BY <2>1, <2>2
<1>. HIDE DEF t
<1>5. ASSUME NEW a
      PROVE  Cardinality(Positions(t, a)) = Cardinality(Positions(s, a)) - (IF a = e THEN 1 ELSE 0)
    <2>. DEFINE P == Positions(s, a) \ {i}
                Q == Positions(t, a)
                f == [j \in P |-> IF j < i THEN j ELSE j - 1]
    <2>1. IsFiniteSet(1..Len(s)) /\ Positions(s, a) \subseteq 1..Len(s)
        BY <1>1, FS_Interval DEF Positions
    <2>2. IsFiniteSet(Positions(s, a)) /\ IsFiniteSet(P)
        BY <2>1, FS_Subset, FS_RemoveElement
    <2>3. f \in [P -> Q]
        BY <1>1, <1>2, <1>4 DEF Positions
    <2>4. \A j, k \in P : f[j] = f[k] => j = k
        BY <1>1, <1>2 DEF Positions
    <2>5. \A j \in Q : \E k \in P : f[k] = j
        <3>1. SUFFICES ASSUME NEW j \in Q PROVE \E k \in P : f[k] = j
            OBVIOUS
        <3>2. CASE j < i
            <4>1. j \in P /\ f[j] = j
                BY <1>1, <1>2, <1>4, <3>2 DEF Positions
            <4>. QED BY <4>1
        <3>3. CASE j >= i
            <4>1. j + 1 \in P /\ f[j + 1] = j
                BY <1>1, <1>2, <1>4, <3>3 DEF Positions
            <4>. QED BY <4>1
        <3>4. j < i \/ j >= i
            BY <1>1, <1>2, <1>4 DEF Positions
        <3>. QED BY <3>2, <3>3, <3>4
    <2>. HIDE DEF f
    <2>6. f \in Bijection(P, Q)
        BY <2>3, <2>4, <2>5, Zenon DEF Bijection, Injection, Surjection, IsInjective
    <2>7. Cardinality(Q) = Cardinality(P)
        BY <2>2, <2>6, FS_Bijection DEF ExistsBijection
    <2>8. CASE a = e
        BY <1>2, <2>2, <2>7, <2>8, FS_RemoveElement
    <2>9. CASE a # e
        <3>1. P = Positions(s, a)
            BY <1>2, <2>9 DEF Positions
        <3>2. Cardinality(P) \in Nat
            BY <2>2, FS_CardinalityType
        <3>3. Cardinality(Q) = Cardinality(Positions(s, a))
            BY <2>7, <3>1, Zenon
        <3>4. Cardinality(Positions(s, a)) \in Nat
            BY <3>1, <3>2, Zenon
        <3>. QED BY <2>9, <3>3, <3>4
    <2>. QED BY <2>8, <2>9
<1>. QED BY <1>3, <1>4, <1>5

-----------------------------------------------------------------------------
(* The invariant. *)

Conn == [pc : {"new", "first", "frame", "dial", "redial", "cancel", "relay", "end", "done", "closed"},
         ip : IPs \cup {Unset}, slot : BOOLEAN,
         deadline : {"first", "startup", "auth", "idle", Unset},
         addr : Addrs \cup {Unset}, key : Keys \cup {Unset}, registered : BOOLEAN,
         c2b : {"off", "copy", "done"}, b2c : {"off", "startup", "rekey", "copy", "done"}]

Outside(r) == r.pc \in {"new", "closed"}

\* What a handler's locals say about one another.
ConnOK(r) ==
    /\ Outside(r) => ~r.slot /\ ~r.registered
    /\ ~Outside(r) => r.ip \in IPs
    /\ r.pc = "done" => ~r.slot
    /\ r.pc \in {"dial", "redial", "relay"} => r.addr \in Addrs
    /\ r.registered => r.pc = "relay" /\ r.key \in Keys /\ r.b2c # "rekey"
    /\ r.b2c = "rekey" => r.pc = "relay" /\ r.key \in Keys

ProxyTypeOK ==
    /\ conn \in [Conns -> Conn] /\ \A c \in Conns : ConnOK(conn[c])
    /\ startups \in [IPs -> Nat] /\ cancels \in [Keys -> Seq(Addrs)]

SlotInv == IsFiniteSet(Handled) /\ SlotsExact

ProxyInv == ProxyTypeOK /\ SlotInv /\ CancelMapExact

\* A step on c's record, to a record that is in order.
StepTo(c, r) == r \in Conn /\ ConnOK(r) /\ Set(c, r)

\* A connection that takes a step keeps its type; the others are left alone.
LEMMA StepTypes ==
    ASSUME ProxyInv, NEW c \in Conns, NEW r, StepTo(c, r)
    PROVE  /\ conn' \in [Conns -> Conn] /\ \A o \in Conns : ConnOK(conn'[o])
           /\ conn'[c] = r /\ \A o \in Conns \ {c} : conn'[o] = conn[o]
BY DEF ProxyInv, ProxyTypeOK, StepTo, Set

\* The sets that are counted are finite.
LEMMA CountedFinite ==
    ASSUME ProxyInv
    PROVE  /\ \A ip \in IPs : IsFiniteSet(InStartup(ip))
           /\ \A key \in Keys, addr \in Addrs : IsFiniteSet(Holders(key, addr))
<1>1. IsFiniteSet(Handled)
    BY DEF ProxyInv, SlotInv
<1>2. \A ip \in IPs : InStartup(ip) \subseteq Handled
    BY DEF InStartup
<1>3. \A key \in Keys, addr \in Addrs : Holders(key, addr) \subseteq Handled
    BY DEF Holders, Handled, ProxyInv, ProxyTypeOK, ConnOK, Outside
<1>. QED BY <1>1, <1>2, <1>3, FS_Subset

-----------------------------------------------------------------------------
(* Slots. *)

\* A step that neither enters nor leaves, and keeps its startup slot.
LEMMA SlotsKept ==
    ASSUME ProxyInv, NEW c \in Conns, NEW r, StepTo(c, r), UNCHANGED <<sem, startups>>,
           Outside(r) <=> Outside(conn[c]), r.slot <=> conn[c].slot,
           r.slot => r.ip = conn[c].ip
    PROVE  SlotInv'
<1>1. Handled' = Handled
    BY StepTypes DEF Handled, Outside
<1>2. \A o \in Conns : /\ conn'[o].slot <=> conn[o].slot
                       /\ conn[o].slot => conn'[o].ip = conn[o].ip
    BY StepTypes
<1>3. \A ip \in IPs : InStartup(ip)' = InStartup(ip)
    <2>1. Handled \subseteq Conns
        BY DEF Handled
    <2>2. \A ip \in IPs, o \in Handled : conn'[o].ip = ip /\ conn'[o].slot <=> conn[o].ip = ip /\ conn[o].slot
        BY <1>2, <2>1
    <2>. QED BY <1>1, <2>2 DEF InStartup
<1>. QED BY <1>1, <1>3 DEF ProxyInv, SlotInv, SlotsExact

\* A connection is admitted.
LEMMA SlotsAdmit ==
    ASSUME ProxyInv, NEW c \in Conns, NEW ip \in IPs, At(c, "new"), Admit(c, ip)
    PROVE  SlotInv' /\ startups' \in [IPs -> Nat]
<1>. DEFINE r == [NewConn EXCEPT !.pc = "first", !.ip = ip, !.slot = TRUE, !.deadline = "first"]
<1>1. /\ sem < MaxConns /\ startups[ip] < MaxStartupsPerIP /\ sem' = sem + 1
      /\ startups' = [startups EXCEPT ![ip] = startups[ip] + 1] /\ Set(c, r)
    BY DEF Admit
<1>2. StepTo(c, r) /\ r.pc = "first" /\ r.slot = TRUE /\ r.ip = ip
    BY <1>1, Zenon DEF StepTo, Conn, ConnOK, Outside, NewConn
<1>. HIDE DEF r
<1>3. Handled' = Handled \cup {c} /\ c \notin Handled
    BY <1>2, StepTypes DEF Handled, At
<1>4. IsFiniteSet(Handled') /\ Cardinality(Handled') = Cardinality(Handled) + 1
    BY <1>3, FS_AddElement DEF ProxyInv, SlotInv
<1>5. InStartup(ip)' = InStartup(ip) \cup {c} /\ c \notin InStartup(ip)
    <2>1. conn'[c].slot /\ conn'[c].ip = ip /\ \A o \in Handled : conn'[o] = conn[o]
        BY <1>2, <1>3, StepTypes DEF Handled
    <2>. QED BY <1>3, <2>1 DEF InStartup
<1>6. Cardinality(InStartup(ip)') = Cardinality(InStartup(ip)) + 1
    BY <1>5, CountedFinite, FS_AddElement
<1>7. \A i \in IPs \ {ip} : InStartup(i)' = InStartup(i)
    <2>1. conn'[c].ip = ip /\ \A o \in Handled : conn'[o] = conn[o]
        BY <1>2, <1>3, StepTypes DEF Handled
    <2>. QED BY <1>3, <2>1 DEF InStartup
<1>8. sem \in Nat /\ startups \in [IPs -> Nat] /\ MaxConns \in Nat /\ MaxStartupsPerIP \in Nat
    BY FS_CardinalityType, ProxyAssumption DEF ProxyInv, ProxyTypeOK, SlotInv, SlotsExact
<1>9. startups' \in [IPs -> Nat] /\ startups'[ip] = startups[ip] + 1
      /\ \A i \in IPs \ {ip} : startups'[i] = startups[i]
    BY <1>1, <1>8
<1>10. sem' = Cardinality(Handled') /\ sem' <= MaxConns
    BY <1>1, <1>4, <1>8 DEF ProxyInv, SlotInv, SlotsExact
<1>11. startups'[ip] = Cardinality(InStartup(ip)') /\ startups'[ip] <= MaxStartupsPerIP
    BY <1>1, <1>6, <1>8, <1>9 DEF ProxyInv, SlotInv, SlotsExact
<1>12. \A i \in IPs \ {ip} : startups'[i] = Cardinality(InStartup(i)') /\ startups'[i] <= MaxStartupsPerIP
    BY <1>7, <1>9 DEF ProxyInv, SlotInv, SlotsExact
<1>. QED BY <1>4, <1>9, <1>10, <1>11, <1>12 DEF SlotInv, SlotsExact

\* The startup slot goes back once, at ReadyForQuery or at the end.
LEMMA SlotsRelease ==
    ASSUME ProxyInv, NEW c \in Conns, NEW r, StepTo(c, r), startupDone(c), sem' = sem,
           ~Outside(conn[c]), ~Outside(r), ~r.slot
    PROVE  SlotInv' /\ startups' \in [IPs -> Nat]
<1>0. PICK ip \in IPs : ip = conn[c].ip
    BY DEF ProxyInv, ProxyTypeOK, ConnOK
<1>1. Handled' = Handled /\ c \in Handled
    BY StepTypes DEF Handled, Outside
<1>2. \A i \in IPs : InStartup(i)' = InStartup(i) \ {c}
    <2>1. ~conn'[c].slot /\ \A o \in Handled \ {c} : conn'[o] = conn[o]
        BY StepTypes DEF Handled
    <2>. QED BY <1>1, <2>1 DEF InStartup
<1>3. \A i \in IPs : c \in InStartup(i) <=> i = ip /\ conn[c].slot
    BY <1>0, <1>1 DEF InStartup
<1>4. sem' = Cardinality(Handled') /\ sem' <= MaxConns /\ IsFiniteSet(Handled')
    BY <1>1 DEF ProxyInv, SlotInv, SlotsExact
<1>5. /\ startups \in [IPs -> Nat] /\ MaxStartupsPerIP \in Nat
      /\ \A i \in IPs : /\ startups[i] = Cardinality(InStartup(i)) /\ startups[i] \in Nat
                        /\ startups[i] <= MaxStartupsPerIP
    BY ProxyAssumption DEF ProxyInv, ProxyTypeOK, SlotInv, SlotsExact
<1>6. CASE conn[c].slot
    <2>1. startups' = [startups EXCEPT ![ip] = startups[ip] - 1]
        BY <1>0, <1>6 DEF startupDone, Release
    <2>2. Cardinality(InStartup(ip)') = Cardinality(InStartup(ip)) - 1
          /\ Cardinality(InStartup(ip)') \in Nat
        <3>1. IsFiniteSet(InStartup(ip)) /\ c \in InStartup(ip) /\ InStartup(ip)' = InStartup(ip) \ {c}
            BY <1>1, <1>2, <1>3, <1>6, CountedFinite
        <3>. QED BY <3>1, FS_RemoveElement, FS_CardinalityType
    <2>3. startups[ip] - 1 \in Nat /\ startups[ip] - 1 <= MaxStartupsPerIP
          /\ startups[ip] - 1 = Cardinality(InStartup(ip)')
        BY <1>1, <1>5, <2>2
    <2>4. startups' \in [IPs -> Nat] /\ startups'[ip] = startups[ip] - 1
          /\ \A i \in IPs \ {ip} : startups'[i] = startups[i]
        BY <1>1, <1>5, <2>1, <2>3
    <2>5. \A i \in IPs \ {ip} : InStartup(i)' = InStartup(i)
        BY <1>2, <1>3
    <2>6. \A i \in IPs : startups'[i] = Cardinality(InStartup(i)') /\ startups'[i] <= MaxStartupsPerIP
        BY <1>1, <1>5, <2>3, <2>4, <2>5
    <2>. QED BY <1>4, <2>4, <2>6 DEF SlotInv, SlotsExact
<1>7. CASE ~conn[c].slot
    <2>1. startups' = startups /\ \A i \in IPs : InStartup(i)' = InStartup(i)
        BY <1>2, <1>3, <1>7 DEF startupDone, Release
    <2>. QED BY <1>4, <1>5, <2>1 DEF SlotInv, SlotsExact
<1>. QED BY <1>6, <1>7

\* The connection slot goes back last.
LEMMA SlotsLeave ==
    ASSUME ProxyInv, NEW c \in Conns, NEW r, StepTo(c, r), UNCHANGED startups, sem' = sem - 1,
           conn[c].pc = "done", Outside(r)
    PROVE  SlotInv'
<1>1. Handled' = Handled \ {c} /\ c \in Handled
    BY StepTypes DEF Handled, Outside
<1>2. IsFiniteSet(Handled') /\ Cardinality(Handled') = Cardinality(Handled) - 1
    BY <1>1, FS_RemoveElement DEF ProxyInv, SlotInv
<1>3. ~conn[c].slot
    BY DEF ProxyInv, ProxyTypeOK, ConnOK
<1>4. \A ip \in IPs : InStartup(ip)' = InStartup(ip)
    <2>1. \A o \in Handled \ {c} : conn'[o] = conn[o]
        BY StepTypes DEF Handled
    <2>. QED BY <1>1, <1>3, <2>1 DEF InStartup
<1>5. sem \in Nat /\ MaxConns \in Nat
    BY FS_CardinalityType, ProxyAssumption DEF ProxyInv, SlotInv, SlotsExact
<1>6. sem' = Cardinality(Handled') /\ sem' <= MaxConns
    BY <1>2, <1>5 DEF ProxyInv, SlotInv, SlotsExact
<1>. QED BY <1>2, <1>4, <1>6 DEF ProxyInv, SlotInv, SlotsExact

-----------------------------------------------------------------------------
(* The cancel map. *)

\* A step that changes neither the map nor what its session registered.
LEMMA CancelsKept ==
    ASSUME ProxyInv, NEW c \in Conns, NEW r, StepTo(c, r), UNCHANGED cancels,
           r.registered <=> conn[c].registered,
           r.registered => r.key = conn[c].key /\ r.addr = conn[c].addr
    PROVE  CancelMapExact'
<1>1. \A o \in Conns :
          /\ conn'[o].registered <=> conn[o].registered
          /\ conn[o].registered => conn'[o].key = conn[o].key /\ conn'[o].addr = conn[o].addr
    BY StepTypes
<1>2. \A key \in Keys, addr \in Addrs : Holders(key, addr)' = Holders(key, addr)
    BY <1>1 DEF Holders
<1>. QED BY <1>2 DEF ProxyInv, CancelMapExact

\* A session adds its key.
LEMMA CancelsAdd ==
    ASSUME ProxyInv, NEW c \in Conns, NEW r, StepTo(c, r), NEW k \in Keys, NEW a \in Addrs,
           add(k, a), ~conn[c].registered, r.registered, r.key = k, r.addr = a
    PROVE  CancelMapExact' /\ cancels' \in [Keys -> Seq(Addrs)]
<1>1. /\ cancels \in [Keys -> Seq(Addrs)]
      /\ \A key \in Keys, addr \in Addrs :
            Cardinality(Positions(cancels[key], addr)) = Cardinality(Holders(key, addr))
    BY DEF ProxyInv, ProxyTypeOK, CancelMapExact, Positions
<1>2. /\ cancels' \in [Keys -> Seq(Addrs)] /\ cancels'[k] = Append(cancels[k], a)
      /\ \A key \in Keys \ {k} : cancels'[key] = cancels[key]
    BY <1>1 DEF add
<1>3. /\ conn'[c].registered /\ conn'[c].key = k /\ conn'[c].addr = a
      /\ \A o \in Conns \ {c} : conn'[o] = conn[o]
    BY StepTypes
<1>4. ASSUME NEW key \in Keys, NEW addr \in Addrs
      PROVE  Cardinality(Positions(cancels'[key], addr)) = Cardinality(Holders(key, addr)')
    <2>1. CASE key = k /\ addr = a
        <3>1. Holders(key, addr)' = Holders(key, addr) \cup {c} /\ c \notin Holders(key, addr)
            BY <1>3, <2>1 DEF Holders
        <3>2. Cardinality(Holders(key, addr)') = Cardinality(Holders(key, addr)) + 1
            BY <3>1, CountedFinite, FS_AddElement, Zenon
        <3>3. cancels[k] \in Seq(Addrs) /\ Len(cancels[k]) \in Nat
            BY <1>1
        <3>4. /\ Positions(cancels'[k], a) = Positions(cancels[k], a) \cup {Len(cancels[k]) + 1}
              /\ Len(cancels[k]) + 1 \notin Positions(cancels[k], a)
            BY <1>2, <3>3 DEF Positions
        <3>5. IsFiniteSet(Positions(cancels[k], a))
            <4>1. Positions(cancels[k], a) \subseteq 1..Len(cancels[k])
                BY <3>3 DEF Positions
            <4>2. IsFiniteSet(1..Len(cancels[k]))
                BY <3>3, FS_Interval
            <4>. QED BY <4>1, <4>2, FS_Subset
        <3>6. Cardinality(Positions(cancels'[k], a)) = Cardinality(Positions(cancels[k], a)) + 1
            <4>1. \A S, x : IsFiniteSet(S) /\ x \notin S => Cardinality(S \cup {x}) = Cardinality(S) + 1
                BY FS_AddElement, Zenon
            <4>. QED BY <3>4, <3>5, <4>1
        <3>. QED BY <1>1, <2>1, <3>2, <3>6
    <2>2. CASE ~(key = k /\ addr = a)
        <3>1. Holders(key, addr)' = Holders(key, addr)
            BY <1>3, <2>2 DEF Holders
        <3>2. Positions(cancels'[key], addr) = Positions(cancels[key], addr)
            <4>1. CASE key # k
                BY <1>2, <4>1
            <4>2. CASE key = k /\ addr # a
                <5>1. cancels[k] \in Seq(Addrs) /\ Len(cancels[k]) \in Nat
                    BY <1>1
                <5>. QED BY <1>2, <4>2, <5>1 DEF Positions
            <4>. QED BY <2>2, <4>1, <4>2
        <3>. QED BY <1>1, <3>1, <3>2
    <2>. QED BY <2>1, <2>2
<1>. QED BY <1>2, <1>4 DEF CancelMapExact, Positions

\* A session takes its key out.
LEMMA CancelsRemove ==
    ASSUME ProxyInv, NEW c \in Conns, NEW r, StepTo(c, r), remove(conn[c].key, conn[c].addr),
           conn[c].registered, ~r.registered
    PROVE  CancelMapExact' /\ cancels' \in [Keys -> Seq(Addrs)]
<1>1. /\ cancels \in [Keys -> Seq(Addrs)]
      /\ \A key \in Keys, addr \in Addrs :
            Cardinality(Positions(cancels[key], addr)) = Cardinality(Holders(key, addr))
    BY DEF ProxyInv, ProxyTypeOK, CancelMapExact, Positions
<1>2. PICK k \in Keys, a \in Addrs : k = conn[c].key /\ a = conn[c].addr
    BY DEF ProxyInv, ProxyTypeOK, ConnOK
<1>3. ~conn'[c].registered /\ \A o \in Conns \ {c} : conn'[o] = conn[o]
    BY StepTypes
<1>4. Positions(cancels[k], a) # {}
    <2>1. c \in Holders(k, a)
        BY <1>2 DEF Holders
    <2>2. Cardinality(Holders(k, a)) # 0
        BY <2>1, CountedFinite, FS_EmptySet
    <2>3. Cardinality(Positions(cancels[k], a)) # 0
        BY <1>1, <2>2
    <2>. QED BY <2>3, FS_EmptySet
<1>5. /\ WithoutFirst(cancels[k], a) \in Seq(Addrs)
      /\ \A x : Cardinality(Positions(WithoutFirst(cancels[k], a), x))
                = Cardinality(Positions(cancels[k], x)) - (IF x = a THEN 1 ELSE 0)
    BY <1>1, <1>4, WithoutFirstCounts
<1>6. cancels' = [cancels EXCEPT ![k] = WithoutFirst(cancels[k], a)]
    BY <1>2 DEF remove
<1>7. /\ cancels' \in [Keys -> Seq(Addrs)] /\ cancels'[k] = WithoutFirst(cancels[k], a)
      /\ \A key \in Keys \ {k} : cancels'[key] = cancels[key]
    BY <1>1, <1>5, <1>6
<1>8. ASSUME NEW key \in Keys, NEW addr \in Addrs
      PROVE  Cardinality(Positions(cancels'[key], addr)) = Cardinality(Holders(key, addr)')
    <2>1. CASE key = k /\ addr = a
        <3>1. Holders(k, a)' = Holders(k, a) \ {c} /\ c \in Holders(k, a)
            BY <1>2, <1>3 DEF Holders
        <3>2. Cardinality(Holders(k, a)') = Cardinality(Holders(k, a)) - 1
            BY <3>1, CountedFinite, FS_RemoveElement, Zenon
        <3>3. Cardinality(Positions(cancels'[k], a)) = Cardinality(Positions(cancels[k], a)) - 1
            BY <1>5, <1>7
        <3>. QED BY <1>1, <2>1, <3>2, <3>3
    <2>2. CASE ~(key = k /\ addr = a)
        <3>1. Holders(key, addr)' = Holders(key, addr)
            BY <1>2, <1>3, <2>2 DEF Holders
        <3>2. Cardinality(Holders(key, addr)) \in Nat
            BY CountedFinite, FS_CardinalityType
        <3>3. Cardinality(Positions(cancels'[key], addr)) = Cardinality(Positions(cancels[key], addr))
            <4>1. CASE key # k
                BY <1>7, <4>1
            <4>2. CASE key = k /\ addr # a
                <5>1. Cardinality(Positions(cancels'[k], addr))
                        = Cardinality(Positions(cancels[k], addr)) - 0
                    BY <1>5, <1>7, <4>2
                <5>2. Cardinality(Positions(cancels[k], addr)) \in Nat
                    BY <1>1, <3>2, <4>2
                <5>. QED BY <4>2, <5>1, <5>2
            <4>. QED BY <2>2, <4>1, <4>2
        <3>. QED BY <1>1, <3>1, <3>3
    <2>. QED BY <2>1, <2>2
<1>. QED BY <1>7, <1>8 DEF CancelMapExact, Positions

-----------------------------------------------------------------------------
(* The steps. *)

\* A handler that has returned.
LEMMA ReturnedOK ==
    ASSUME NEW r \in Conn, ~Outside(r), ConnOK(r)
    PROVE  /\ Returned(r) \in Conn /\ ConnOK(Returned(r)) /\ ~Outside(Returned(r))
           /\ Returned(r).slot = r.slot /\ Returned(r).ip = r.ip /\ ~Returned(r).registered
           /\ Returned(r).pc = "end"
<1>1. r.ip \in IPs /\ r.slot \in BOOLEAN
    BY DEF ConnOK, Conn
<1>2. NewConn \in Conn /\ ~NewConn.registered /\ NewConn.b2c = "off"
    BY DEF NewConn, Conn
<1>3. /\ Returned(r) \in Conn /\ Returned(r).pc = "end" /\ Returned(r).ip = r.ip
      /\ Returned(r).slot = r.slot /\ Returned(r).registered = NewConn.registered
      /\ Returned(r).b2c = NewConn.b2c
    BY <1>1, <1>2, Zenon DEF Returned, Conn
<1>. QED BY <1>1, <1>2, <1>3 DEF ConnOK, Outside

\* A step inside the handler that has nothing to do with the cancel map.
Silent(c, r) ==
    /\ StepTo(c, r) /\ OnlyConn /\ ~Outside(conn[c]) /\ ~Outside(r)
    /\ r.slot = conn[c].slot /\ r.ip = conn[c].ip
    /\ r.registered = conn[c].registered
    /\ r.registered => r.key = conn[c].key /\ r.addr = conn[c].addr

\* A step that touches neither slots nor the cancel map keeps the invariant.
LEMMA QuietKeeps ==
    ASSUME ProxyInv, NEW c \in Conns, NEW r, Silent(c, r)
    PROVE  ProxyInv'
<1>1. SlotInv'
    BY SlotsKept DEF Silent, OnlyConn
<1>2. CancelMapExact'
    BY CancelsKept DEF Silent, OnlyConn
<1>3. ProxyTypeOK'
    BY StepTypes DEF Silent, OnlyConn, ProxyInv, ProxyTypeOK
<1>. QED BY <1>1, <1>2, <1>3 DEF ProxyInv

\* The steps before and around the relay.
LEMMA HandlerQuiet ==
    ASSUME ProxyInv, NEW c \in Conns,
           \/ FirstByte(c) \/ StartupEnds(c) \/ Route(c) \/ Dial(c) \/ redial(c)
           \/ CancelRequest(c) \/ Forwarded(c) \/ Read(c)
           \/ copyClientToBackend(c) \/ copyBackendToClient(c)
    PROVE  \E r : Silent(c, r)
<1>. DEFINE q == conn[c]
<1>1. q \in Conn /\ ConnOK(q)
    BY DEF ProxyInv, ProxyTypeOK
<1>2. ASSUME q.pc \in {"first", "frame", "redial", "cancel"}, OnlyConn, Set(c, Returned(q))
      PROVE  Silent(c, Returned(q))
    <2>1. ~Outside(q) /\ ~q.registered
        BY <1>1, <1>2 DEF Outside, ConnOK
    <2>2. Returned(q).registered = q.registered
        BY <1>1, <2>1, ReturnedOK DEF Conn
    <2>. QED BY <1>1, <1>2, <2>1, <2>2, ReturnedOK DEF Silent, StepTo
<1>3. CASE FirstByte(c)
    <2>. DEFINE r == [q EXCEPT !.pc = "frame", !.deadline = "startup"]
    <2>1. Silent(c, r)
        BY <1>1, <1>3, Zenon DEF FirstByte, At, Silent, StepTo, Conn, ConnOK, Outside
    <2>. QED BY <2>1
<1>4. CASE StartupEnds(c) \/ Forwarded(c)
    BY <1>2, <1>4 DEF StartupEnds, readStartupFrame, Forwarded, At
<1>5. CASE Route(c)
    <2>1. PICK addr \in Addrs \cup {Unset} :
              Set(c, IF addr = Unset THEN Returned(q)
                     ELSE [q EXCEPT !.pc = "dial", !.addr = addr, !.deadline = "auth"])
        BY <1>5, Zenon DEF Route, ResolveBranch
    <2>2. CASE addr = Unset
        BY <1>2, <1>5, <2>1, <2>2, Zenon DEF Route, At
    <2>3. CASE addr # Unset
        <3>. DEFINE r == [q EXCEPT !.pc = "dial", !.addr = addr, !.deadline = "auth"]
        <3>1. Set(c, r) /\ addr \in Addrs /\ q.pc = "frame" /\ OnlyConn
            BY <1>5, <2>1, <2>3, Zenon DEF Route, At
        <3>2. Silent(c, r)
            BY <1>1, <3>1, Zenon DEF Silent, StepTo, Conn, ConnOK, Outside
        <3>. QED BY <3>2
    <2>. QED BY <2>2, <2>3
<1>6. CASE Dial(c)
    <2>1. CASE Set(c, Relaying(q))
        <3>1. Silent(c, Relaying(q))
            BY <1>1, <1>6, <2>1, Zenon DEF Dial, At, Relaying, Silent, StepTo, Conn, ConnOK, Outside
        <3>. QED BY <3>1
    <2>2. CASE Set(c, [q EXCEPT !.pc = "redial"])
        <3>. DEFINE r == [q EXCEPT !.pc = "redial"]
        <3>1. Silent(c, r)
            BY <1>1, <1>6, <2>2 DEF Dial, At, Silent, StepTo, Conn, ConnOK, Outside
        <3>. QED BY <3>1
    <2>. QED BY <1>6, <2>1, <2>2 DEF Dial
<1>7. CASE redial(c)
    <2>1. CASE Set(c, Returned(q))
        BY <1>2, <1>7, <2>1 DEF redial, At
    <2>2. ASSUME NEW moved \in RefreshBranchEndpoint(c) \ {q.addr, Unset},
                 Set(c, Relaying([q EXCEPT !.addr = moved]))
          PROVE  \E r : Silent(c, r)
        <3>. DEFINE r == Relaying([q EXCEPT !.addr = moved])
        <3>1. moved \in Addrs
            BY DEF RefreshBranchEndpoint
        <3>2. Silent(c, r)
            BY <1>1, <1>7, <2>2, <3>1, Zenon
               DEF redial, At, Relaying, Silent, StepTo, Conn, ConnOK, Outside
        <3>. QED BY <3>2
    <2>. QED BY <1>7, <2>1, <2>2, Zenon DEF redial
<1>8. CASE CancelRequest(c)
    <2>1. PICK key \in Keys :
              \/ Set(c, Returned(q))
              \/ /\ lookup(key) # Unset
                 /\ Set(c, [q EXCEPT !.pc = "cancel", !.key = key, !.addr = lookup(key)])
        BY <1>8, Zenon DEF CancelRequest
    <2>2. CASE Set(c, Returned(q))
        BY <1>2, <1>8, <2>2, Zenon DEF CancelRequest, At
    <2>3. CASE /\ lookup(key) # Unset
               /\ Set(c, [q EXCEPT !.pc = "cancel", !.key = key, !.addr = lookup(key)])
        <3>. DEFINE r == [q EXCEPT !.pc = "cancel", !.key = key, !.addr = lookup(key)]
        <3>1. lookup(key) \in Addrs
            BY <2>3 DEF lookup, ProxyInv, ProxyTypeOK
        <3>2. Silent(c, r)
            BY <1>1, <1>8, <2>3, <3>1, Zenon DEF CancelRequest, At, Silent, StepTo, Conn, ConnOK, Outside
        <3>. QED BY <3>2
    <2>. QED BY <2>1, <2>2, <2>3
<1>9. CASE Read(c)
    <2>. DEFINE d == IF q.b2c = "copy" THEN "idle" ELSE q.deadline
                r == [q EXCEPT !.deadline = d]
    <2>1. d \in {"first", "startup", "auth", "idle", Unset} /\ Set(c, r) /\ q.pc = "relay" /\ OnlyConn
        BY <1>1, <1>9 DEF Read, At, Conn
    <2>. HIDE DEF d
    <2>2. Silent(c, r)
        BY <1>1, <2>1 DEF Silent, StepTo, Conn, ConnOK, Outside
    <2>. QED BY <2>2
<1>10. CASE copyClientToBackend(c)
    <2>. DEFINE r == [q EXCEPT !.c2b = "done"]
    <2>1. Silent(c, r)
        BY <1>1, <1>10 DEF copyClientToBackend, At, Silent, StepTo, Conn, ConnOK, Outside
    <2>. QED BY <2>1
<1>11. CASE copyBackendToClient(c)
    <2>. DEFINE r == [q EXCEPT !.b2c = "done"]
    <2>1. Silent(c, r)
        BY <1>1, <1>11 DEF copyBackendToClient, At, Silent, StepTo, Conn, ConnOK, Outside
    <2>. QED BY <2>1
<1>. QED BY <1>3, <1>4, <1>5, <1>6, <1>7, <1>8, <1>9, <1>10, <1>11

\* Every step keeps the invariant.
LEMMA ProxyStep ==
    ASSUME ProxyInv, [ProxyNext]_proxyVars
    PROVE  ProxyInv'
<1>1. CASE UNCHANGED proxyVars
    <2>1. /\ Handled' = Handled /\ \A ip \in IPs : InStartup(ip)' = InStartup(ip)
          /\ \A key \in Keys, addr \in Addrs : Holders(key, addr)' = Holders(key, addr)
        BY <1>1 DEF proxyVars, Handled, InStartup, Holders
    <2>2. ProxyTypeOK'
        BY <1>1 DEF proxyVars, ProxyInv, ProxyTypeOK
    <2>3. SlotInv' /\ CancelMapExact'
        BY <1>1, <2>1 DEF proxyVars, ProxyInv, SlotInv, SlotsExact, CancelMapExact
    <2>. QED BY <2>2, <2>3 DEF ProxyInv
<1>2. ASSUME NEW c \in Conns, NEW ip \in IPs, At(c, "new"), UNCHANGED cancels, Admit(c, ip)
      PROVE  ProxyInv'
    <2>. DEFINE r == [NewConn EXCEPT !.pc = "first", !.ip = ip, !.slot = TRUE, !.deadline = "first"]
    <2>1. StepTo(c, r) /\ ~r.registered /\ ~conn[c].registered
        BY <1>2, Zenon DEF Admit, At, StepTo, Conn, ConnOK, Outside, NewConn, ProxyInv, ProxyTypeOK
    <2>. HIDE DEF r
    <2>2. CancelMapExact'
        BY <1>2, <2>1, CancelsKept
    <2>3. SlotInv' /\ startups' \in [IPs -> Nat]
        BY <1>2, SlotsAdmit
    <2>4. ProxyTypeOK'
        BY <1>2, <2>1, <2>3, StepTypes DEF ProxyInv, ProxyTypeOK
    <2>. QED BY <2>2, <2>3, <2>4 DEF ProxyInv
<1>3. ASSUME NEW c \in Conns, NEW ip \in IPs, At(c, "new"), UNCHANGED cancels, Refuse(c, ip)
      PROVE  ProxyInv'
    <2>. DEFINE r == [NewConn EXCEPT !.pc = "closed"]
    <2>1. /\ StepTo(c, r) /\ ~r.registered /\ ~conn[c].registered /\ ~r.slot /\ ~conn[c].slot
          /\ Outside(r) /\ Outside(conn[c])
        BY <1>3, Zenon DEF Refuse, At, StepTo, Conn, ConnOK, Outside, NewConn, ProxyInv, ProxyTypeOK
    <2>. HIDE DEF r
    <2>2. CancelMapExact'
        BY <1>3, <2>1, CancelsKept
    <2>3. SlotInv'
        BY <1>3, <2>1, SlotsKept DEF Refuse
    <2>4. ProxyTypeOK'
        BY <1>3, <2>1, StepTypes DEF Refuse, ProxyInv, ProxyTypeOK
    <2>. QED BY <2>2, <2>3, <2>4 DEF ProxyInv
<1>4. ASSUME NEW c \in Conns,
             \/ FirstByte(c) \/ StartupEnds(c) \/ Route(c) \/ Dial(c) \/ redial(c)
             \/ CancelRequest(c) \/ Forwarded(c) \/ Read(c)
             \/ copyClientToBackend(c) \/ copyBackendToClient(c)
      PROVE  ProxyInv'
    <2>1. PICK r : Silent(c, r)
        BY <1>4, HandlerQuiet
    <2>. QED BY <2>1, QuietKeeps
<1>5. ASSUME NEW c \in Conns, NEW key \in Keys, conn[c].pc = "relay", UNCHANGED <<sem, startups>>,
             DropKey(c, key)
      PROVE  ProxyInv'
    <2>. DEFINE r == [conn[c] EXCEPT !.b2c = "rekey", !.key = key, !.registered = FALSE]
    <2>1. conn[c] \in Conn /\ ConnOK(conn[c])
        BY DEF ProxyInv, ProxyTypeOK
    <2>2. /\ StepTo(c, r) /\ ~r.registered /\ conn[c].registered /\ r.slot = conn[c].slot
          /\ r.ip = conn[c].ip /\ ~Outside(r) /\ ~Outside(conn[c])
        BY <1>5, <2>1, Zenon DEF DropKey, StepTo, Conn, ConnOK, Outside
    <2>. HIDE DEF r
    <2>3. CancelMapExact' /\ cancels' \in [Keys -> Seq(Addrs)]
        BY <1>5, <2>2, CancelsRemove DEF DropKey
    <2>4. SlotInv'
        BY <1>5, <2>2, SlotsKept
    <2>5. ProxyTypeOK'
        BY <1>5, <2>2, <2>3, StepTypes DEF ProxyInv, ProxyTypeOK
    <2>. QED BY <2>3, <2>4, <2>5 DEF ProxyInv
<1>6. ASSUME NEW c \in Conns, NEW key \in Keys, conn[c].pc = "relay", UNCHANGED <<sem, startups>>,
             AddKey(c, key)
      PROVE  ProxyInv'
    <2>. DEFINE r == [conn[c] EXCEPT !.b2c = "startup", !.key = key, !.registered = TRUE]
    <2>1. conn[c] \in Conn /\ ConnOK(conn[c])
        BY DEF ProxyInv, ProxyTypeOK
    <2>2. PICK a \in Addrs : a = conn[c].addr
        BY <1>6, <2>1 DEF ConnOK
    <2>3. /\ StepTo(c, r) /\ r.registered /\ ~conn[c].registered /\ r.slot = conn[c].slot
          /\ r.ip = conn[c].ip /\ ~Outside(r) /\ ~Outside(conn[c]) /\ r.key = key /\ r.addr = a
        BY <1>6, <2>1, <2>2, Zenon DEF AddKey, StepTo, Conn, ConnOK, Outside
    <2>. HIDE DEF r
    <2>4. CancelMapExact' /\ cancels' \in [Keys -> Seq(Addrs)]
        BY <1>6, <2>2, <2>3, CancelsAdd DEF AddKey
    <2>5. SlotInv'
        BY <1>6, <2>3, SlotsKept
    <2>6. ProxyTypeOK'
        BY <1>6, <2>3, <2>4, StepTypes DEF ProxyInv, ProxyTypeOK
    <2>. QED BY <2>4, <2>5, <2>6 DEF ProxyInv
<1>7. ASSUME NEW c \in Conns, registerCancelKey(c)
      PROVE  ProxyInv'
    <2>1. conn[c].b2c = "rekey" => conn[c].pc = "relay" /\ conn[c].key \in Keys
        BY DEF ProxyInv, ProxyTypeOK, ConnOK
    <2>. QED BY <1>5, <1>6, <1>7, <2>1 DEF registerCancelKey, At
<1>8. ASSUME NEW c \in Conns, markReady(c)
      PROVE  ProxyInv'
    <2>. DEFINE r == [conn[c] EXCEPT !.b2c = "copy", !.slot = FALSE, !.deadline = "idle"]
    <2>1. conn[c] \in Conn /\ ConnOK(conn[c])
        BY DEF ProxyInv, ProxyTypeOK
    <2>2. /\ StepTo(c, r) /\ ~r.slot /\ r.registered = conn[c].registered /\ r.key = conn[c].key
          /\ r.addr = conn[c].addr /\ ~Outside(r) /\ ~Outside(conn[c])
        BY <1>8, <2>1, Zenon DEF markReady, At, StepTo, Conn, ConnOK, Outside
    <2>. HIDE DEF r
    <2>3. CancelMapExact'
        BY <1>8, <2>2, CancelsKept DEF markReady
    <2>4. SlotInv' /\ startups' \in [IPs -> Nat]
        BY <1>8, <2>2, SlotsRelease DEF markReady
    <2>5. ProxyTypeOK'
        BY <1>8, <2>2, <2>4, StepTypes DEF markReady, ProxyInv, ProxyTypeOK
    <2>. QED BY <2>3, <2>4, <2>5 DEF ProxyInv
<1>9. ASSUME NEW c \in Conns, RelayEnds(c)
      PROVE  ProxyInv'
    <2>. DEFINE r == Returned(conn[c])
    <2>1. conn[c] \in Conn /\ ConnOK(conn[c]) /\ ~Outside(conn[c]) /\ Set(c, r)
        BY <1>9 DEF ProxyInv, ProxyTypeOK, RelayEnds, At, Outside
    <2>2. /\ StepTo(c, r) /\ ~r.registered /\ r.slot = conn[c].slot /\ r.ip = conn[c].ip
          /\ ~Outside(r)
        BY <2>1, ReturnedOK DEF StepTo
    <2>. HIDE DEF r
    <2>3. CancelMapExact' /\ cancels' \in [Keys -> Seq(Addrs)]
        <3>1. CASE conn[c].registered
            BY <1>9, <2>2, <3>1, CancelsRemove DEF RelayEnds
        <3>2. CASE ~conn[c].registered
            <4>1. cancels' = cancels
                BY <1>9, <3>2 DEF RelayEnds
            <4>2. CancelMapExact'
                BY <2>2, <3>2, <4>1, CancelsKept
            <4>. QED BY <4>1, <4>2 DEF ProxyInv, ProxyTypeOK
        <3>. QED BY <3>1, <3>2
    <2>4. SlotInv'
        BY <1>9, <2>1, <2>2, SlotsKept DEF RelayEnds
    <2>5. ProxyTypeOK'
        BY <1>9, <2>2, <2>3, StepTypes DEF RelayEnds, ProxyInv, ProxyTypeOK
    <2>. QED BY <2>3, <2>4, <2>5 DEF ProxyInv
<1>10. ASSUME NEW c \in Conns, GiveStartup(c)
       PROVE  ProxyInv'
    <2>. DEFINE r == [conn[c] EXCEPT !.pc = "done", !.slot = FALSE]
    <2>1. conn[c] \in Conn /\ ConnOK(conn[c])
        BY DEF ProxyInv, ProxyTypeOK
    <2>2. /\ StepTo(c, r) /\ ~r.slot /\ ~r.registered /\ ~conn[c].registered
          /\ ~Outside(r) /\ ~Outside(conn[c])
        BY <1>10, <2>1, Zenon DEF GiveStartup, At, StepTo, Conn, ConnOK, Outside
    <2>. HIDE DEF r
    <2>3. CancelMapExact'
        BY <1>10, <2>2, CancelsKept DEF GiveStartup
    <2>4. SlotInv' /\ startups' \in [IPs -> Nat]
        BY <1>10, <2>2, SlotsRelease DEF GiveStartup
    <2>5. ProxyTypeOK'
        BY <1>10, <2>2, <2>4, StepTypes DEF GiveStartup, ProxyInv, ProxyTypeOK
    <2>. QED BY <2>3, <2>4, <2>5 DEF ProxyInv
<1>11. ASSUME NEW c \in Conns, GiveSlot(c)
       PROVE  ProxyInv'
    <2>. DEFINE r == [NewConn EXCEPT !.pc = "closed"]
    <2>1. StepTo(c, r) /\ ~r.registered /\ ~conn[c].registered /\ Outside(r) /\ conn[c].pc = "done"
        BY <1>11, Zenon DEF GiveSlot, At, StepTo, Conn, ConnOK, Outside, NewConn, ProxyInv, ProxyTypeOK
    <2>. HIDE DEF r
    <2>2. CancelMapExact'
        BY <1>11, <2>1, CancelsKept DEF GiveSlot
    <2>3. SlotInv'
        BY <1>11, <2>1, SlotsLeave DEF GiveSlot
    <2>4. ProxyTypeOK'
        BY <1>11, <2>1, StepTypes DEF GiveSlot, ProxyInv, ProxyTypeOK
    <2>. QED BY <2>2, <2>3, <2>4 DEF ProxyInv
<1>. QED BY <1>1, <1>2, <1>3, <1>4, <1>7, <1>8, <1>9, <1>10, <1>11 DEF ProxyNext, Accept

\* The start: nobody connected.
LEMMA ProxyStart ==
    ASSUME ProxyInit
    PROVE  ProxyInv
<1>1. NewConn \in Conn /\ ConnOK(NewConn) /\ NewConn.pc = "new" /\ ~NewConn.registered
    BY DEF NewConn, Conn, ConnOK, Outside
<1>2. ProxyTypeOK
    BY <1>1 DEF ProxyInit, ProxyTypeOK
<1>3. Handled = {} /\ \A ip \in IPs : InStartup(ip) = {}
    BY <1>1 DEF ProxyInit, Handled, InStartup
<1>4. SlotInv
    <2>1. IsFiniteSet(Handled) /\ Cardinality(Handled) = 0
          /\ \A ip \in IPs : Cardinality(InStartup(ip)) = 0
        BY <1>3, FS_EmptySet
    <2>2. MaxConns >= 0 /\ MaxStartupsPerIP >= 0
        BY ProxyAssumption
    <2>3. sem = 0 /\ \A ip \in IPs : startups[ip] = 0
        BY DEF ProxyInit
    <2>. QED BY <2>1, <2>2, <2>3 DEF SlotInv, SlotsExact
<1>5. CancelMapExact
    <2>1. \A key \in Keys, addr \in Addrs : Holders(key, addr) = {}
        BY <1>1 DEF ProxyInit, Holders
    <2>2. \A key \in Keys, addr \in Addrs : {i \in DOMAIN cancels[key] : cancels[key][i] = addr} = {}
        BY DEF ProxyInit
    <2>. QED BY <2>1, <2>2 DEF CancelMapExact
<1>. QED BY <1>2, <1>4, <1>5 DEF ProxyInv

-----------------------------------------------------------------------------

\* The invariant holds throughout.
LEMMA ProxyInvariant == ProxySpec => []ProxyInv
<1>1. ProxyInit => ProxyInv
    BY ProxyStart
<1>2. ProxyInv /\ [ProxyNext]_proxyVars => ProxyInv'
    BY ProxyStep
<1>. QED BY <1>1, <1>2, PTL DEF ProxySpec

\* Both caps are kept and both counts exact, for any number of connections and
\* whatever the caps are: no path through handleConn gives a slot back twice or
\* keeps one.
THEOREM SlotsAlwaysExact == ProxySpec => []SlotsExact
<1>1. ProxyInv => SlotsExact
    BY DEF ProxyInv, SlotInv
<1>. QED BY <1>1, ProxyInvariant, PTL

\* The cancel map holds one entry for each live session that registered a key, and
\* nothing else, for any number of sessions that share keys and backends.
THEOREM CancelMapAlwaysExact == ProxySpec => []CancelMapExact
<1>1. ProxyInv => CancelMapExact
    BY DEF ProxyInv
<1>. QED BY <1>1, ProxyInvariant, PTL

\* A forwarded cancel goes to the one backend that every live holder of its key is
\* on: lookup answers only for a key with a single entry, and every live holder
\* has one.
THEOREM CancelsReachOwn == ProxySpec => CancelsOwnOnly
<1>. DEFINE Own == \A c, o \in Conns :
                      /\ conn[c].pc = "frame" /\ conn'[c].pc = "cancel"
                      /\ conn[o].registered /\ conn[o].key = conn'[c].key
                      => conn[o].addr = conn'[c].addr
<1>1. ASSUME ProxyInv, [ProxyNext]_proxyVars
      PROVE  [Own]_proxyVars
    <2>1. SUFFICES ASSUME NEW c \in Conns, NEW o \in Conns,
                          conn[c].pc = "frame", conn'[c].pc = "cancel",
                          conn[o].registered, conn[o].key = conn'[c].key
                   PROVE  conn[o].addr = conn'[c].addr
        OBVIOUS
    <2>2. CancelRequest(c)
        <3>1. PICK d \in Conns :
                \/ Accept(d) \/ FirstByte(d) \/ StartupEnds(d) \/ Route(d) \/ Dial(d) \/ redial(d)
                \/ CancelRequest(d) \/ Forwarded(d) \/ registerCancelKey(d) \/ markReady(d) \/ Read(d)
                \/ copyClientToBackend(d) \/ copyBackendToClient(d) \/ RelayEnds(d)
                \/ GiveStartup(d) \/ GiveSlot(d)
            BY <1>1, <2>1 DEF ProxyNext, proxyVars
        <3>2. \E r : Set(d, r)
            BY <3>1, Zenon DEF Accept, Admit, Refuse, FirstByte, StartupEnds, readStartupFrame, Route, Dial,
                        redial, CancelRequest, Forwarded, registerCancelKey, DropKey, AddKey,
                        markReady, Read, copyClientToBackend, copyBackendToClient, RelayEnds,
                        GiveStartup, GiveSlot
        <3>3. conn \in [Conns -> Conn] /\ d = c
            BY <1>1, <2>1, <3>2 DEF Set, ProxyInv, ProxyTypeOK
        <3>4. conn[c].b2c # "rekey"
            BY <1>1, <2>1 DEF ProxyInv, ProxyTypeOK, ConnOK
        <3>5. StartupEnds(c) \/ Route(c) \/ CancelRequest(c)
            BY <2>1, <3>1, <3>3, <3>4
               DEF Accept, FirstByte, StartupEnds, Dial, redial, Forwarded, registerCancelKey,
                   markReady, Read, copyClientToBackend, copyBackendToClient, RelayEnds,
                   GiveStartup, GiveSlot, At
        <3>6. conn'[c] # Returned(conn[c])
            BY <2>1, Zenon DEF Returned, NewConn
        <3>7. ~StartupEnds(c)
            BY <3>3, <3>6 DEF StartupEnds, readStartupFrame, Set
        <3>8. ~Route(c)
            <4>1. \A addr : [conn[c] EXCEPT !.pc = "dial", !.addr = addr, !.deadline = "auth"].pc = "dial"
                BY <3>3 DEF Conn
            <4>. QED BY <2>1, <3>3, <3>6, <4>1, Zenon DEF Route, Set
        <3>. QED BY <3>5, <3>7, <3>8
    <2>3. PICK key \in Keys : /\ lookup(key) # Unset
                              /\ conn'[c] = [conn[c] EXCEPT !.pc = "cancel", !.key = key,
                                                            !.addr = lookup(key)]
        <3>1. conn'[c] # Returned(conn[c])
            BY <2>1, Zenon DEF Returned, NewConn
        <3>. QED BY <1>1, <2>2, <3>1, Zenon DEF CancelRequest, Set, ProxyInv, ProxyTypeOK
    <2>4. conn'[c].key = key /\ conn'[c].addr = lookup(key)
        BY <1>1, <2>3 DEF ProxyInv, ProxyTypeOK, Conn
    <2>5. PICK a \in Addrs : a = conn[o].addr /\ o \in Holders(key, a)
        BY <1>1, <2>1, <2>4 DEF ProxyInv, ProxyTypeOK, ConnOK, Holders
    <2>6. Cardinality({i \in DOMAIN cancels[key] : cancels[key][i] = a}) # 0
        <3>1. Cardinality(Holders(key, a)) # 0
            BY <1>1, <2>5, CountedFinite, FS_EmptySet
        <3>. QED BY <1>1, <3>1 DEF ProxyInv, CancelMapExact
    <2>7. PICK i \in DOMAIN cancels[key] : cancels[key][i] = a
        BY <2>6, FS_EmptySet
    <2>8. Len(cancels[key]) = 1 /\ lookup(key) = cancels[key][1]
        BY <2>3 DEF lookup
    <2>9. i = 1
        <3>1. cancels[key] \in Seq(Addrs)
            BY <1>1 DEF ProxyInv, ProxyTypeOK
        <3>. QED BY <2>8, <3>1
    <2>. QED BY <2>4, <2>5, <2>7, <2>8, <2>9
<1>. QED BY <1>1, ProxyInvariant, PTL DEF ProxySpec, CancelsOwnOnly

-----------------------------------------------------------------------------
(* The queues of Webhook.tla.                                                *)

Stages == {"status", "comment", "patch", "post", "get", "create", "reset", "redo", "redoing", "wait", "check",
           "settle", "destroy", "destroying", "fin"}
Notes == {"working", "ready", "failed", "destroyed"}
Drain == [pr : PRs, by : Workers, job : Nat \cup {None},
          pc : Stages \cup {"top", "retired"}, note : Notes \cup {None}]
Page == [commits : Nat, status : {"pending", "success", "failure", None},
         comments : Seq(Notes \cup {None})]
Event == [pr : PRs, action : {"opened", "synchronize", "closed", "reopened"}, sha : Nat]

WebhookTypeOK ==
    /\ events \in Seq(Event) /\ page \in [PRs -> Page]
    /\ queues \in [PRs -> [running : BOOLEAN, jobs : Seq(Nat)]]
    /\ drains \subseteq Drain /\ IsFiniteSet(drains) /\ wg \in Int

\* A worker that has a job in hand, or is about to leave.
Active(d) == d.pc \in Stages

\* A worker moves on within its job.
Moves(d) ==
    /\ d \in drains /\ Active(d)
    /\ \E e \in Drain : e.pr = d.pr /\ e.by = d.by /\ Active(e) /\ Put(d, e)

KeepsRest == UNCHANGED <<events, queues, wg, exit>> /\ page' \in [PRs -> Page]

-----------------------------------------------------------------------------
(* The steps of a job. *)

\* The ways in which a step hands on.
LEMMA HandsOn ==
    ASSUME NEW d \in Drain, d \in drains, Active(d)
    PROVE  /\ \A pc \in Stages : Goto(d, pc) => Moves(d)
           /\ \A note \in Notes : Report(d, note) => Moves(d)
           /\ Reported(d) => Moves(d)
<1>1. ASSUME NEW pc \in Stages, Goto(d, pc) PROVE Moves(d)
    <2>1. [d EXCEPT !.pc = pc] \in Drain
        BY DEF Drain
    <2>. QED BY <1>1, <2>1 DEF Moves, Goto, Active, Drain
<1>2. ASSUME NEW note \in Notes, Report(d, note) PROVE Moves(d)
    <2>. DEFINE e == [d EXCEPT !.note = note,
                               !.pc = IF note = "destroyed" THEN "comment" ELSE "status"]
    <2>1. CASE note = "destroyed"
        <3>1. e = [d EXCEPT !.note = note, !.pc = "comment"]
            BY <2>1
        <3>2. e \in Drain /\ e.pr = d.pr /\ e.by = d.by /\ Active(e)
            BY <3>1, Zenon DEF Drain, Active, Stages, Notes
        <3>. QED BY <1>2, <3>2, Zenon DEF Moves, Report
    <2>2. CASE note # "destroyed"
        <3>1. e = [d EXCEPT !.note = note, !.pc = "status"]
            BY <2>2
        <3>2. e \in Drain /\ e.pr = d.pr /\ e.by = d.by /\ Active(e)
            BY <3>1, Zenon DEF Drain, Active, Stages, Notes
        <3>. QED BY <1>2, <3>2, Zenon DEF Moves, Report
    <2>. QED BY <2>1, <2>2
<1>3. ASSUME Reported(d) PROVE Moves(d)
    <2>. DEFINE e == [d EXCEPT !.note = None,
                               !.pc = IF d.note = "working" THEN "get" ELSE "fin"]
    <2>1. CASE d.note = "working"
        <3>1. e = [d EXCEPT !.note = None, !.pc = "get"]
            BY <2>1
        <3>2. e \in Drain /\ e.pr = d.pr /\ e.by = d.by /\ Active(e)
            BY <3>1, Zenon DEF Drain, Active, Stages, Notes
        <3>. QED BY <1>3, <3>2, Zenon DEF Moves, Reported
    <2>2. CASE d.note # "working"
        <3>1. e = [d EXCEPT !.note = None, !.pc = "fin"]
            BY <2>2
        <3>2. e \in Drain /\ e.pr = d.pr /\ e.by = d.by /\ Active(e)
            BY <3>1, Zenon DEF Drain, Active, Stages, Notes
        <3>. QED BY <1>3, <3>2, Zenon DEF Moves, Reported
    <2>. QED BY <2>1, <2>2
<1>. QED BY <1>1, <1>2, <1>3

\* What a job writes on the pull request is a page again.
LEMMA PageWritten ==
    ASSUME WebhookTypeOK, NEW d \in drains
    PROVE  /\ setStatus(d) => page' \in [PRs -> Page]
           /\ UpsertComment(d) => page' \in [PRs -> Page]
<1>1. d \in Drain /\ page \in [PRs -> Page] /\ d.pr \in PRs /\ page[d.pr] \in Page
    BY DEF WebhookTypeOK, Drain
<1>2. [page EXCEPT ![d.pr].status = StatusOf(d.note)] \in [PRs -> Page]
    <2>1. StatusOf(d.note) \in {"pending", "success", "failure"}
        <3>1. CASE d.note = "working"
            BY <3>1 DEF StatusOf
        <3>2. CASE d.note = "ready"
            BY <3>2 DEF StatusOf
        <3>3. CASE d.note \notin {"working", "ready"}
            BY <3>3 DEF StatusOf
        <3>. QED BY <3>1, <3>2, <3>3
    <2>. QED BY <1>1, <2>1, Zenon DEF Page
<1>3. /\ [page EXCEPT ![d.pr].comments[1] = d.note] \in [PRs -> Page]
      /\ [page EXCEPT ![d.pr].comments = Append(@, d.note)] \in [PRs -> Page]
    <2>. DEFINE old == page[d.pr].comments
    <2>1. old \in Seq(Notes \cup {None}) /\ d.note \in Notes \cup {None}
        BY <1>1 DEF Page, Drain
    <2>2. Append(old, d.note) \in Seq(Notes \cup {None})
        BY <2>1
    <2>3. [old EXCEPT ![1] = d.note] \in Seq(Notes \cup {None})
        <3>1. CASE old = << >>
            <4>1. [old EXCEPT ![1] = d.note] = old
                BY <3>1
            <4>. QED BY <2>1, <4>1, Zenon
        <3>2. CASE old # << >>
            BY <2>1, <3>2
        <3>. QED BY <3>1, <3>2
    <2>. QED BY <1>1, <2>2, <2>3, Zenon DEF Page
<1>. QED BY <1>1, <1>2, <1>3 DEF setStatus, UpsertComment, Posts

\* Every step of a job but the first and the last moves its worker on and leaves
\* the queues and the WaitGroup alone.
LEMMA JobStep ==
    ASSUME WebhookTypeOK, NEW d \in drains,
           \/ setStatus(d) \/ findMarkerComment(d) \/ UpsertComment(d) \/ get(d) \/ create(d)
           \/ reset(d) \/ redo(d) \/ redone(d) \/ requireReady(d) \/ reopened(d) \/ settle(d) \/ destroyBranch(d)
           \/ destroyed(d) \/ do(d) \/ Interrupted(d) \/ JobFails(d)
    PROVE  Alive /\ Moves(d) /\ KeepsRest
<1>1. d \in Drain /\ page \in [PRs -> Page]
    BY DEF WebhookTypeOK
<1>2. ASSUME Active(d), NEW pc \in Stages, Goto(d, pc) PROVE Moves(d)
    BY <1>1, <1>2, HandsOn
<1>3. ASSUME Active(d), NEW note \in Notes, Report(d, note) PROVE Moves(d)
    BY <1>1, <1>3, HandsOn
<1>4. ASSUME Active(d), Reported(d) PROVE Moves(d)
    BY <1>1, <1>4, HandsOn
<1>5. KeepQueues => KeepsRest
    BY <1>1 DEF KeepQueues, Local, KeepsRest, github
<1>6. CASE setStatus(d)
    <2>1. Active(d) /\ "comment" \in Stages
        BY <1>6 DEF setStatus, Work, Active, Stages
    <2>. QED BY <1>2, <1>6, <2>1, PageWritten DEF setStatus, Work, Local, KeepsRest, github
<1>6a. CASE findMarkerComment(d)
    <2>1. Active(d) /\ {"patch", "post"} \subseteq Stages
        BY <1>6a, Zenon DEF findMarkerComment, Work, Active, Stages
    <2>2. Moves(d) /\ KeepQueues /\ Alive
        BY <1>2, <1>4, <1>6a, <2>1, Zenon DEF findMarkerComment, Work
    <2>. QED BY <1>5, <2>2
<1>7. CASE UpsertComment(d)
    <2>1. Active(d)
        BY <1>7 DEF UpsertComment, Work, Active, Stages
    <2>. QED BY <1>4, <1>7, <2>1, PageWritten, Zenon DEF UpsertComment, Work, Local, KeepsRest, github
<1>8. CASE get(d)
    <2>1. Active(d) /\ {"create", "redo", "reset"} \subseteq Stages /\ "ready" \in Notes
        BY <1>8, Zenon DEF get, Work, Active, Stages, Notes
    <2>. QED BY <1>2, <1>3, <1>5, <1>8, <2>1, Zenon DEF get, Work
<1>9. CASE create(d) \/ reset(d)
    <2>1. Active(d) /\ "wait" \in Stages /\ "failed" \in Notes
        BY <1>9 DEF create, reset, Work, Active, Stages, Notes
    <2>. QED BY <1>2, <1>3, <1>5, <1>9, <2>1 DEF create, reset, Calls, Work
<1>10. CASE redo(d) \/ redone(d)
    <2>1. Active(d) /\ {"create", "redoing"} \subseteq Stages /\ "failed" \in Notes
        BY <1>10, Zenon DEF redo, redone, Work, Active, Stages, Notes
    <2>. QED BY <1>2, <1>3, <1>5, <1>10, <2>1 DEF redo, redone, Destroys, Work
<1>11. CASE requireReady(d)
    <2>1. Active(d) /\ {"ready", "failed"} \subseteq Notes
        BY <1>11 DEF requireReady, Work, Active, Stages, Notes
    <2>2. (IF branch[d.pr] = "ready" THEN "ready" ELSE "failed") \in Notes
        BY <2>1
    <2>. QED BY <1>3, <1>5, <1>11, <2>1, <2>2, ZenonT(30) DEF requireReady, Work
<1>12. CASE reopened(d)
    <2>1. Active(d) /\ {"settle", "fin"} \subseteq Stages
        BY <1>12, Zenon DEF reopened, Work, Active, Stages
    <2>2. (IF pr[d.pr] = "open" THEN "fin" ELSE "settle") \in Stages
        BY <2>1
    <2>. QED BY <1>2, <1>5, <1>12, <2>1, <2>2, ZenonT(30) DEF reopened, Work
<1>13. CASE settle(d) \/ destroyBranch(d) \/ destroyed(d)
    <2>1. Active(d) /\ {"destroy", "destroying", "fin"} \subseteq Stages /\ "destroyed" \in Notes
        BY <1>13 DEF settle, destroyBranch, destroyed, Work, Active, Stages, Notes
    <2>. QED BY <1>2, <1>3, <1>5, <1>13, <2>1 DEF settle, destroyBranch, Destroys, destroyed, Work
<1>14. CASE do(d) \/ Interrupted(d)
    <2>1. Active(d)
        BY <1>14 DEF do, idempotent, Interrupted, Work, Active, Stages
    <2>2. Call(d) \in Stages
        <3>1. {"destroy", "redo", "create", "reset"} \subseteq Stages
            BY DEF Stages
        <3>2. Call(d) \in {"destroy", "redo", "create", "reset"}
            BY DEF Call
        <3>. QED BY <3>1, <3>2
    <2>. QED BY <1>2, <1>5, <1>14, <2>1, <2>2 DEF do, Interrupted, Work
<1>15. CASE JobFails(d)
    <2>1. Active(d) /\ "fin" \in Stages /\ "failed" \in Notes
        BY <1>15 DEF JobFails, EnsureFails, CloseFails, TimesOut, Ensuring, Closing, Active, Stages, Notes
    <2>. QED BY <1>2, <1>3, <1>5, <1>15, <2>1 DEF JobFails, EnsureFails, CloseFails, TimesOut
<1>. QED BY <1>6, <1>6a, <1>7, <1>8, <1>9, <1>10, <1>11, <1>12, <1>13, <1>14, <1>15

-----------------------------------------------------------------------------
(* The queues: a branch whose map entry exists has one worker that has not   *)
(* retired, and the WaitGroup counts the jobs waiting and those in hand.     *)

Serves(d) == d.pc # "retired"

QueueInv ==
    /\ \A d, e \in drains : d.by = e.by => d = e
    /\ \A d, e \in drains : d.pr = e.pr /\ Serves(d) /\ Serves(e) => d = e
    /\ \A d \in drains : Serves(d) => queues[d.pr].running
    /\ \A d \in drains : d.pc = "top" => queues[d.pr].jobs # << >>
    /\ \A p \in PRs : queues[p].jobs # << >> => queues[p].running
    /\ \A p \in PRs : queues[p].running => \E d \in drains : d.pr = p /\ Serves(d)

Waiting == {w \in PRs \X Nat : w[2] \in 1..Len(queues[w[1]].jobs)}
Held == {d \in drains : d.pc # "top"}

CountInv == IsFiniteSet(Waiting) /\ wg = Cardinality(Waiting) + Cardinality(Held)

WebhookInv == WebhookTypeOK /\ QueueInv /\ CountInv /\ WaitMeansIdle

\* One element in another one's place.
LEMMA Replaced ==
    ASSUME NEW S, IsFiniteSet(S), NEW d \in S, NEW e, e \notin S \ {d}
    PROVE  /\ IsFiniteSet((S \ {d}) \cup {e})
           /\ Cardinality((S \ {d}) \cup {e}) = Cardinality(S)
<1>1. IsFiniteSet(S \ {d}) /\ Cardinality(S \ {d}) = Cardinality(S) - 1
    BY FS_RemoveElement
<1>2. /\ IsFiniteSet((S \ {d}) \cup {e})
      /\ Cardinality((S \ {d}) \cup {e}) = Cardinality(S \ {d}) + 1
    BY <1>1, FS_AddElement
<1>3. Cardinality(S) \in Nat
    BY FS_CardinalityType
<1>. QED BY <1>1, <1>2, <1>3

\* The workers with a job in hand, or about to leave, are finitely many.
LEMMA HeldFinite ==
    ASSUME WebhookTypeOK
    PROVE  IsFiniteSet(Held)
BY FS_Subset DEF WebhookTypeOK, Held

\* A worker that moves on within its job keeps the queues' invariant.
LEMMA MovesKeeps ==
    ASSUME WebhookInv, NEW d \in drains, Moves(d), KeepsRest
    PROVE  WebhookTypeOK' /\ QueueInv' /\ CountInv'
<1>1. PICK e \in Drain : e.pr = d.pr /\ e.by = d.by /\ Active(e) /\ Put(d, e)
    BY DEF Moves
<1>2. /\ d.pc \notin {"top", "retired"} /\ e.pc \notin {"top", "retired"}
      /\ drains' = (drains \ {d}) \cup {e} /\ d \in Drain /\ e \notin drains \ {d}
    BY <1>1 DEF Moves, Active, Stages, Put, WebhookInv, WebhookTypeOK, QueueInv
<1>3. WebhookTypeOK'
    <2>1. IsFiniteSet(drains')
        BY <1>2, Replaced DEF WebhookInv, WebhookTypeOK
    <2>. QED BY <1>1, <1>2, <2>1 DEF WebhookInv, WebhookTypeOK, KeepsRest
<1>4. QueueInv'
    BY <1>1, <1>2 DEF WebhookInv, WebhookTypeOK, QueueInv, Serves, KeepsRest
<1>5. CountInv'
    <2>1. Held' = (Held \ {d}) \cup {e} /\ d \in Held /\ e \notin Held \ {d}
        BY <1>2 DEF Held
    <2>2. Cardinality(Held') = Cardinality(Held)
        BY <2>1, HeldFinite, Replaced DEF WebhookInv
    <2>3. Waiting' = Waiting /\ wg' = wg
        BY DEF Waiting, KeepsRest
    <2>. QED BY <2>2, <2>3 DEF CountInv, WebhookInv
<1>. QED BY <1>3, <1>4, <1>5

\* A worker takes the next job: one fewer waiting, one more in hand.
LEMMA PopKeeps ==
    ASSUME WebhookInv, NEW d \in drains, Pop(d)
    PROVE  WebhookTypeOK' /\ QueueInv' /\ CountInv'
<1>. DEFINE p == d.pr
            jobs == queues[p].jobs
            e == IF Closed(Head(jobs)) THEN [d EXCEPT !.job = Head(jobs), !.pc = "check"]
                 ELSE [d EXCEPT !.job = Head(jobs), !.pc = "status", !.note = "working"]
<1>1. /\ d \in Drain /\ p \in PRs /\ jobs \in Seq(Nat) /\ jobs # << >> /\ d.pc = "top"
      /\ queues \in [PRs -> [running : BOOLEAN, jobs : Seq(Nat)]]
    BY DEF WebhookInv, WebhookTypeOK, Drain, Pop, Work
<1>2. Head(jobs) \in Nat /\ Tail(jobs) \in Seq(Nat) /\ Len(Tail(jobs)) = Len(jobs) - 1
    BY <1>1
<1>3. e \in Drain /\ e.pr = p /\ e.by = d.by /\ e.pc \notin {"top", "retired"}
    <2>1. CASE Closed(Head(jobs))
        <3>1. e = [d EXCEPT !.job = Head(jobs), !.pc = "check"]
            BY <2>1
        <3>. QED BY <1>1, <1>2, <3>1, Zenon DEF Drain, Stages
    <2>2. CASE ~Closed(Head(jobs))
        <3>1. e = [d EXCEPT !.job = Head(jobs), !.pc = "status", !.note = "working"]
            BY <2>2
        <3>. QED BY <1>1, <1>2, <3>1, Zenon DEF Drain, Stages, Notes
    <2>. QED BY <2>1, <2>2
<1>4. /\ drains' = (drains \ {d}) \cup {e} /\ queues' = [queues EXCEPT ![p].jobs = Tail(@)]
      /\ wg' = wg /\ events' = events /\ page' = page
    BY DEF Pop, Put, github
<1>. HIDE DEF e
<1>5. e \notin drains \ {d}
    BY <1>1, <1>3 DEF WebhookInv, QueueInv
<1>6. /\ queues' \in [PRs -> [running : BOOLEAN, jobs : Seq(Nat)]]
      /\ queues'[p].jobs = Tail(jobs)
      /\ \A q \in PRs : queues'[q].running = queues[q].running
      /\ \A q \in PRs \ {p} : queues'[q] = queues[q]
    BY <1>1, <1>2, <1>4, Zenon
<1>7. WebhookTypeOK'
    <2>1. IsFiniteSet(drains')
        BY <1>4, <1>5, Replaced DEF WebhookInv, WebhookTypeOK
    <2>. QED BY <1>3, <1>4, <1>6, <2>1 DEF WebhookInv, WebhookTypeOK
<1>8. QueueInv'
    <2>1. \A x \in drains \ {d} : x.pr \in PRs /\ (Serves(x) => x.pr # p)
        BY <1>1 DEF WebhookInv, WebhookTypeOK, QueueInv, Drain, Serves
    <2>. QED BY <1>1, <1>3, <1>4, <1>6, <2>1 DEF WebhookInv, WebhookTypeOK, QueueInv, Serves
<1>9. CountInv'
    <2>1. Held' = Held \cup {e} /\ e \notin Held
        BY <1>1, <1>3, <1>4, <1>5 DEF Held
    <2>2. Cardinality(Held') = Cardinality(Held) + 1
        BY <2>1, HeldFinite, FS_AddElement DEF WebhookInv
    <2>3. Waiting' = Waiting \ {<<p, Len(jobs)>>} /\ <<p, Len(jobs)>> \in Waiting
        <3>1. Len(jobs) \in Nat /\ Len(jobs) > 0
            BY <1>1
        <3>2. \A i \in Nat : i \in 1..Len(queues'[p].jobs) <=> i \in 1..Len(jobs) /\ i # Len(jobs)
            BY <1>2, <1>6, <3>1
        <3>3. \A q \in PRs, i \in Nat : i \in 1..Len(queues'[q].jobs)
                  <=> i \in 1..Len(queues[q].jobs) /\ <<q, i>> # <<p, Len(jobs)>>
            BY <1>1, <1>6, <3>2, Zenon
        <3>. QED BY <1>1, <3>1, <3>3 DEF Waiting
    <2>4. IsFiniteSet(Waiting') /\ Cardinality(Waiting') = Cardinality(Waiting) - 1
        BY <2>3, FS_RemoveElement DEF CountInv, WebhookInv
    <2>5. Cardinality(Waiting) \in Nat /\ Cardinality(Held) \in Nat
        BY HeldFinite, FS_CardinalityType DEF CountInv, WebhookInv
    <2>. QED BY <1>4, <2>2, <2>4, <2>5 DEF CountInv, WebhookInv
<1>. QED BY <1>7, <1>8, <1>9

\* A worker goes on to the next job, which is waiting: the one in hand is done.
LEMMA NextJobKeeps ==
    ASSUME WebhookInv, NEW d \in drains, NextJob(d)
    PROVE  WebhookTypeOK' /\ QueueInv' /\ CountInv'
<1>. DEFINE e == [d EXCEPT !.job = None, !.pc = "top"]
<1>1. /\ d \in Drain /\ d.pc = "fin" /\ queues[d.pr].jobs # << >>
      /\ drains' = (drains \ {d}) \cup {e} /\ wg' = wg - 1
      /\ UNCHANGED <<queues, events, page>>
    BY DEF WebhookInv, WebhookTypeOK, NextJob, Work, Put, github
<1>2. e \in Drain /\ e.pr = d.pr /\ e.by = d.by /\ e.pc = "top"
    BY <1>1, Zenon DEF Drain
<1>. HIDE DEF e
<1>3. e \notin drains \ {d}
    BY <1>2 DEF WebhookInv, QueueInv
<1>4. WebhookTypeOK'
    <2>1. IsFiniteSet(drains')
        BY <1>1, <1>3, Replaced DEF WebhookInv, WebhookTypeOK
    <2>. QED BY <1>1, <1>2, <2>1 DEF WebhookInv, WebhookTypeOK
<1>5. QueueInv'
    BY <1>1, <1>2 DEF WebhookInv, QueueInv, Serves
<1>6. CountInv'
    <2>1. Held' = Held \ {d} /\ d \in Held
        BY <1>1, <1>2 DEF Held
    <2>2. Cardinality(Held') = Cardinality(Held) - 1
        BY <2>1, HeldFinite, FS_RemoveElement DEF WebhookInv
    <2>3. Waiting' = Waiting
        BY <1>1 DEF Waiting
    <2>4. Cardinality(Waiting) \in Nat /\ Cardinality(Held) \in Nat
        BY HeldFinite, FS_CardinalityType DEF CountInv, WebhookInv
    <2>. QED BY <1>1, <2>2, <2>3, <2>4 DEF CountInv, WebhookInv
<1>. QED BY <1>4, <1>5, <1>6

\* A worker whose queue is empty retires: the map entry goes with it.
LEMMA RetireKeeps ==
    ASSUME WebhookInv, NEW d \in drains, Retire(d)
    PROVE  WebhookTypeOK' /\ QueueInv' /\ CountInv'
<1>. DEFINE p == d.pr
            e == [d EXCEPT !.pc = "retired"]
<1>1. /\ d \in Drain /\ p \in PRs /\ d.pc = "fin" /\ queues[p].jobs = << >>
      /\ queues \in [PRs -> [running : BOOLEAN, jobs : Seq(Nat)]]
      /\ queues' = [queues EXCEPT ![p].running = FALSE]
      /\ drains' = (drains \ {d}) \cup {e} /\ wg' = wg /\ events' = events /\ page' = page
    BY DEF WebhookInv, WebhookTypeOK, Drain, Retire, Work, Goto, Put, github
<1>2. e \in Drain /\ e.pr = p /\ e.by = d.by /\ e.pc = "retired"
    BY <1>1, Zenon DEF Drain
<1>. HIDE DEF e
<1>3. e \notin drains \ {d}
    BY <1>2 DEF WebhookInv, QueueInv
<1>4. /\ queues' \in [PRs -> [running : BOOLEAN, jobs : Seq(Nat)]]
      /\ queues'[p].running = FALSE
      /\ \A q \in PRs : queues'[q].jobs = queues[q].jobs
      /\ \A q \in PRs \ {p} : queues'[q] = queues[q]
    BY <1>1, Zenon
<1>5. WebhookTypeOK'
    <2>1. IsFiniteSet(drains')
        BY <1>1, <1>3, Replaced DEF WebhookInv, WebhookTypeOK
    <2>. QED BY <1>1, <1>2, <1>4, <2>1 DEF WebhookInv, WebhookTypeOK
<1>6. QueueInv'
    <2>1. \A x \in drains \ {d} : x.pr \in PRs /\ (Serves(x) => x.pr # p)
        BY <1>1 DEF WebhookInv, WebhookTypeOK, QueueInv, Drain, Serves
    <2>2. \A x, y \in drains' : x.by = y.by => x = y
        BY <1>1, <1>2 DEF WebhookInv, QueueInv
    <2>3. \A x \in drains' : Serves(x) => x \in drains \ {d}
        BY <1>1, <1>2 DEF Serves
    <2>4. \A x, y \in drains' : x.pr = y.pr /\ Serves(x) /\ Serves(y) => x = y
        BY <2>3 DEF WebhookInv, QueueInv
    <2>5. \A x \in drains' : Serves(x) => queues'[x.pr].running
        BY <1>4, <2>1, <2>3 DEF WebhookInv, QueueInv
    <2>6. \A x \in drains' : x.pc = "top" => queues'[x.pr].jobs # << >>
        BY <1>4, <2>1, <2>3 DEF WebhookInv, QueueInv, Serves
    <2>7. \A q \in PRs : queues'[q].jobs # << >> => queues'[q].running
        BY <1>1, <1>4 DEF WebhookInv, QueueInv
    <2>8. ASSUME NEW q \in PRs, queues'[q].running
          PROVE  \E x \in drains' : x.pr = q /\ Serves(x)
        <3>1. q # p /\ queues[q].running
            BY <1>4, <2>8
        <3>2. PICK x \in drains : x.pr = q /\ Serves(x)
            BY <3>1 DEF WebhookInv, QueueInv
        <3>. QED BY <1>1, <3>1, <3>2
    <2>. QED BY <2>2, <2>4, <2>5, <2>6, <2>7, <2>8 DEF QueueInv, Serves
<1>7. CountInv'
    <2>1. Held' = (Held \ {d}) \cup {e} /\ d \in Held /\ e \notin Held \ {d}
        BY <1>1, <1>2, <1>3 DEF Held
    <2>2. Cardinality(Held') = Cardinality(Held)
        BY <2>1, HeldFinite, Replaced DEF WebhookInv
    <2>3. Waiting' = Waiting
        BY <1>4 DEF Waiting
    <2>. QED BY <1>1, <2>2, <2>3 DEF CountInv, WebhookInv
<1>. QED BY <1>5, <1>6, <1>7

\* A retired worker reports its last job done and is gone.
LEMMA DoneKeeps ==
    ASSUME WebhookInv, NEW d \in drains, Done(d)
    PROVE  WebhookTypeOK' /\ QueueInv' /\ CountInv'
<1>1. /\ d.pc = "retired" /\ drains' = drains \ {d} /\ wg' = wg - 1
      /\ UNCHANGED <<queues, events, page>>
    BY DEF Done, Work, github
<1>2. WebhookTypeOK'
    <2>1. IsFiniteSet(drains')
        BY <1>1, FS_RemoveElement DEF WebhookInv, WebhookTypeOK
    <2>. QED BY <1>1, <2>1 DEF WebhookInv, WebhookTypeOK
<1>3. QueueInv'
    BY <1>1 DEF WebhookInv, QueueInv, Serves
<1>4. CountInv'
    <2>1. Held' = Held \ {d} /\ d \in Held
        BY <1>1 DEF Held
    <2>2. Cardinality(Held') = Cardinality(Held) - 1
        BY <2>1, HeldFinite, FS_RemoveElement DEF WebhookInv
    <2>3. Waiting' = Waiting
        BY <1>1 DEF Waiting
    <2>4. Cardinality(Waiting) \in Nat /\ Cardinality(Held) \in Nat
        BY HeldFinite, FS_CardinalityType DEF CountInv, WebhookInv
    <2>. QED BY <1>1, <2>2, <2>3, <2>4 DEF CountInv, WebhookInv
<1>. QED BY <1>2, <1>3, <1>4

\* A delivery joins its branch's queue; a worker is started if the branch has none.
LEMMA EnqueueKeeps ==
    ASSUME WebhookInv, NEW id \in Ids, enqueue(id), UNCHANGED <<events, page>>
    PROVE  WebhookTypeOK' /\ QueueInv' /\ CountInv'
<1>. DEFINE p == events[id].pr
            jobs == queues[p].jobs
            w == CHOOSE w \in Free : TRUE
            e == NewDrain(p, w)
<1>1. /\ id \in Nat /\ p \in PRs /\ jobs \in Seq(Nat)
      /\ queues \in [PRs -> [running : BOOLEAN, jobs : Seq(Nat)]]
    <2>1. events \in Seq(Event) /\ id \in 1..Len(events)
        BY DEF WebhookInv, WebhookTypeOK, Ids
    <2>2. events[id] \in Event /\ id \in Nat
        BY <2>1
    <2>. QED BY <2>2 DEF WebhookInv, WebhookTypeOK, Event
<1>2. /\ queues' = [queues EXCEPT ![p] = [running |-> TRUE, jobs |-> Append(@.jobs, id)]]
      /\ wg' = wg + 1
      /\ ~queues[p].running => Free # {} /\ drains' = drains \cup {e}
      /\ queues[p].running => drains' = drains
    BY Zenon DEF enqueue, Queued
<1>3. /\ queues' \in [PRs -> [running : BOOLEAN, jobs : Seq(Nat)]]
      /\ queues'[p].running = TRUE
      /\ queues'[p].jobs # << >> /\ Len(queues'[p].jobs) = Len(jobs) + 1
      /\ \A q \in PRs \ {p} : queues'[q] = queues[q]
    <2>1. Append(jobs, id) \in Seq(Nat) /\ Len(Append(jobs, id)) = Len(jobs) + 1 /\ Len(jobs) \in Nat
        BY <1>1
    <2>2. Append(jobs, id) # << >>
        BY <2>1, SMTT(30)
    <2>3. queues' = [queues EXCEPT ![p] = [running |-> TRUE, jobs |-> Append(jobs, id)]]
        BY <1>2, Zenon
    <2>4. queues'[p] = [running |-> TRUE, jobs |-> Append(jobs, id)]
        BY <1>1, <2>3, Zenon
    <2>5. queues' \in [PRs -> [running : BOOLEAN, jobs : Seq(Nat)]]
        BY <1>1, <2>1, <2>3
    <2>. QED BY <1>1, <2>1, <2>2, <2>3, <2>4, <2>5, Zenon
<1>4. ~queues[p].running => /\ e \in Drain /\ e.pr = p /\ e.pc = "top"
                            /\ \A d \in drains : d.by # e.by
    <2>1. SUFFICES ASSUME ~queues[p].running
                   PROVE  /\ e \in Drain /\ e.pr = p /\ e.pc = "top"
                          /\ \A d \in drains : d.by # e.by
        OBVIOUS
    <2>2. w \in Workers /\ \A d \in drains : d.by # w
        BY <1>2, <2>1 DEF Free
    <2>. QED BY <1>1, <2>2 DEF NewDrain, Drain
<1>. HIDE DEF e
<1>5. WebhookTypeOK'
    <2>1. IsFiniteSet(drains \cup {e})
        BY FS_AddElement, ZenonT(30) DEF WebhookInv, WebhookTypeOK
    <2>2. drains' \subseteq Drain
        BY <1>2, <1>4 DEF WebhookInv, WebhookTypeOK
    <2>3. IsFiniteSet(drains')
        BY <1>2, <2>1, Zenon DEF WebhookInv, WebhookTypeOK
    <2>4. events' \in Seq(Event) /\ page' \in [PRs -> Page]
        BY DEF WebhookInv, WebhookTypeOK
    <2>5. wg' \in Int
        BY <1>2, SMTT(30) DEF WebhookInv, WebhookTypeOK
    <2>6. queues' \in [PRs -> [running : BOOLEAN, jobs : Seq(Nat)]]
        BY <1>3
    <2>. QED BY <2>2, <2>3, <2>4, <2>5, <2>6, Zenon DEF WebhookTypeOK
<1>6. QueueInv'
    <2>1. \A x \in drains : x.pr \in PRs /\ (Serves(x) => queues[x.pr].running)
        BY DEF WebhookInv, WebhookTypeOK, QueueInv, Drain
    <2>2. \A q \in PRs : (queues[q].running => queues'[q].running)
                        /\ (queues[q].jobs # << >> => queues'[q].jobs # << >>)
                        /\ (q # p => queues'[q] = queues[q])
        BY <1>3
    <2>3. \A q \in PRs : queues'[q].jobs # << >> => queues'[q].running
        BY <1>3, <2>2 DEF WebhookInv, QueueInv
    <2>4. CASE queues[p].running
        <3>1. drains' = drains
            BY <1>2, <2>4
        <3>2. \A q \in PRs : queues'[q].running => queues[q].running
            BY <2>2, <2>4
        <3>. QED BY <2>1, <2>2, <2>3, <3>1, <3>2, Zenon DEF WebhookInv, QueueInv, Serves
    <2>5. CASE ~queues[p].running
        <3>1. /\ drains' = drains \cup {e} /\ e.pr = p /\ e.pc = "top"
              /\ \A d \in drains : d.by # e.by
            BY <1>2, <1>4, <2>5, ZenonT(30)
        <3>2. \A d \in drains : Serves(d) => d.pr # p
            BY <2>1, <2>5
        <3>3. \A x, y \in drains' : x.by = y.by => x = y
            BY <3>1 DEF WebhookInv, QueueInv
        <3>4. \A x, y \in drains' : x.pr = y.pr /\ Serves(x) /\ Serves(y) => x = y
            BY <3>1, <3>2 DEF WebhookInv, QueueInv
        <3>5. \A x \in drains' : /\ Serves(x) => queues'[x.pr].running
                                 /\ x.pc = "top" => queues'[x.pr].jobs # << >>
            BY <1>3, <2>1, <2>2, <3>1 DEF WebhookInv, QueueInv
        <3>6. \A q \in PRs : queues'[q].running => \E x \in drains' : x.pr = q /\ Serves(x)
            BY <2>2, <3>1 DEF WebhookInv, QueueInv, Serves
        <3>. QED BY <2>3, <3>3, <3>4, <3>5, <3>6 DEF QueueInv, Serves
    <2>. QED BY <2>4, <2>5
<1>7. CountInv'
    <2>1. Held' = Held
        BY <1>2, <1>4 DEF Held
    <2>2. Waiting' = Waiting \cup {<<p, Len(jobs) + 1>>} /\ <<p, Len(jobs) + 1>> \notin Waiting
        <3>1. Len(jobs) \in Nat
            BY <1>1
        <3>2. \A i \in Nat : i \in 1..Len(queues'[p].jobs) <=> i \in 1..Len(jobs) \/ i = Len(jobs) + 1
            BY <1>3, <3>1
        <3>3. \A q \in PRs, i \in Nat : i \in 1..Len(queues'[q].jobs)
                  <=> i \in 1..Len(queues[q].jobs) \/ <<q, i>> = <<p, Len(jobs) + 1>>
            BY <1>1, <1>3, <3>2, Zenon
        <3>4. <<p, Len(jobs) + 1>> \in PRs \X Nat /\ Len(jobs) + 1 \notin 1..Len(jobs)
            BY <1>1, <3>1, SMTT(30)
        <3>5. \A v \in PRs \X Nat : v = <<v[1], v[2]>> /\ v[1] \in PRs /\ v[2] \in Nat
            OBVIOUS
        <3>6. ASSUME NEW v \in PRs \X Nat
              PROVE  v \in Waiting' <=> v \in Waiting \/ v = <<p, Len(jobs) + 1>>
            <4>1. v = <<v[1], v[2]>> /\ v[1] \in PRs /\ v[2] \in Nat
                BY <3>5
            <4>2. v \in Waiting' <=> v[2] \in 1..Len(queues'[v[1]].jobs)
                BY Zenon DEF Waiting
            <4>3. v \in Waiting <=> v[2] \in 1..Len(queues[v[1]].jobs)
                BY Zenon DEF Waiting
            <4>4. v[2] \in 1..Len(queues'[v[1]].jobs)
                  <=> v[2] \in 1..Len(queues[v[1]].jobs) \/ <<v[1], v[2]>> = <<p, Len(jobs) + 1>>
                BY <3>3, <4>1, Zenon
            <4>. QED BY <4>1, <4>2, <4>3, <4>4, Zenon
        <3>7. <<p, Len(jobs) + 1>> \notin Waiting
            BY <3>4 DEF Waiting
        <3>. QED BY <3>4, <3>6, <3>7, Zenon DEF Waiting
    <2>3. IsFiniteSet(Waiting') /\ Cardinality(Waiting') = Cardinality(Waiting) + 1
        BY <2>2, FS_AddElement DEF CountInv, WebhookInv
    <2>4. Cardinality(Waiting) \in Nat /\ Cardinality(Held) \in Nat
        BY HeldFinite, FS_CardinalityType DEF CountInv, WebhookInv
    <2>. QED BY <1>2, <2>1, <2>3, <2>4 DEF CountInv, WebhookInv
<1>. QED BY <1>5, <1>6, <1>7

\* A pull request changes: a delivery more.
LEMMA SendsKeeps ==
    ASSUME WebhookInv, NEW p \in PRs, PullRequest(p)
    PROVE  WebhookTypeOK' /\ UNCHANGED <<queues, drains, wg, exit>>
<1>1. PICK action \in {"opened", "synchronize", "closed", "reopened"}, to \in {"open", "closed"} :
          Sends(p, action, to)
    BY DEF PullRequest
<1>. DEFINE shown == IF action \in {"opened", "synchronize"}
                     THEN [page[p] EXCEPT !.commits = @ + 1, !.status = None] ELSE page[p]
<1>2. page \in [PRs -> Page] /\ page[p] \in Page /\ events \in Seq(Event)
    BY DEF WebhookInv, WebhookTypeOK
<1>3. shown \in Page
    <2>1. CASE action \in {"opened", "synchronize"}
        <3>1. shown = [page[p] EXCEPT !.commits = page[p].commits + 1, !.status = None]
            BY <2>1
        <3>2. page[p].commits + 1 \in Nat
            BY <1>2 DEF Page
        <3>3. \A n \in Nat : [page[p] EXCEPT !.commits = n, !.status = None] \in Page
            BY <1>2, Zenon DEF Page
        <3>. QED BY <3>1, <3>2, <3>3, Zenon
    <2>2. CASE action \notin {"opened", "synchronize"}
        BY <1>2, <2>2
    <2>. QED BY <2>1, <2>2
<1>4. /\ page' = [page EXCEPT ![p] = shown] /\ UNCHANGED <<queues, drains, wg, exit>>
      /\ events' = Append(events, [pr |-> p, action |-> action, sha |-> shown.commits])
    BY <1>1 DEF Sends
<1>. HIDE DEF shown
<1>5. [pr |-> p, action |-> action, sha |-> shown.commits] \in Event
    BY <1>3 DEF Event, Page
<1>6. events' \in Seq(Event) /\ page' \in [PRs -> Page]
    BY <1>2, <1>3, <1>4, <1>5
<1>. QED BY <1>4, <1>6 DEF WebhookInv, WebhookTypeOK

\* Wait returns only when no job is waiting or in hand, hence with no worker left.
LEMMA WaitIdle ==
    ASSUME WebhookInv, wg = 0
    PROVE  drains = {} /\ \A p \in PRs : queues[p] = [running |-> FALSE, jobs |-> << >>]
<1>1. Cardinality(Waiting) \in Nat /\ Cardinality(Held) \in Nat
    BY HeldFinite, FS_CardinalityType DEF CountInv, WebhookInv
<1>2. Cardinality(Waiting) = 0 /\ Cardinality(Held) = 0
    BY <1>1 DEF CountInv, WebhookInv
<1>3. Waiting = {} /\ Held = {}
    BY <1>2, HeldFinite, FS_EmptySet DEF CountInv, WebhookInv
<1>4. \A p \in PRs : queues[p].jobs = << >>
    <2>1. SUFFICES ASSUME NEW p \in PRs, queues[p].jobs # << >> PROVE FALSE
        OBVIOUS
    <2>2. queues[p].jobs \in Seq(Nat)
        BY DEF WebhookInv, WebhookTypeOK
    <2>3. 1 \in 1..Len(queues[p].jobs) /\ <<p, 1>> \in PRs \X Nat
        BY <2>1, <2>2
    <2>. QED BY <1>3, <2>3 DEF Waiting
<1>5. drains = {}
    <2>1. \A d \in drains : d.pc = "top" /\ d.pr \in PRs
        BY <1>3 DEF Held, WebhookInv, WebhookTypeOK, Drain
    <2>. QED BY <1>4, <2>1 DEF WebhookInv, QueueInv
<1>6. \A p \in PRs : queues[p].running = FALSE
    BY <1>5 DEF WebhookInv, WebhookTypeOK, QueueInv
<1>. QED BY <1>4, <1>5, <1>6 DEF WebhookInv, WebhookTypeOK

\* Every step keeps the invariant.
LEMMA WebhookStep ==
    ASSUME WebhookInv, [WebhookNext]_webVars
    PROVE  WebhookInv'
<1>1. ASSUME UNCHANGED <<queues, drains, wg>>
      PROVE  QueueInv' /\ CountInv'
    BY <1>1, ZenonT(30) DEF WebhookInv, QueueInv, CountInv, Waiting, Held, Serves
<1>2. ASSUME UNCHANGED <<events, page, queues, drains, wg>>
      PROVE  WebhookTypeOK' /\ QueueInv' /\ CountInv'
    BY <1>1, <1>2, Zenon DEF WebhookInv, WebhookTypeOK
<1>3. CASE UNCHANGED webVars
    BY <1>2, <1>3 DEF webVars, WebhookInv, WaitMeansIdle
<1>4. ASSUME NEW p \in PRs, PullRequest(p)
      PROVE  WebhookInv'
    BY <1>1, <1>4, SendsKeeps DEF WebhookInv, WaitMeansIdle
<1>5. ASSUME NEW p \in PRs, Completes(p) \/ SagaFails(p) \/ Reaped(p)
      PROVE  WebhookInv'
    <2>1. UNCHANGED <<events, page, queues, drains, wg, exit>>
        BY <1>5 DEF Completes, SagaFails, Reaped, Branchd, KeepQueues, Local, github
    <2>. QED BY <1>2, <2>1 DEF WebhookInv, WaitMeansIdle
<1>6. ASSUME NEW id \in Ids, Redeliver(id)
      PROVE  WebhookInv'
    BY <1>2, <1>6 DEF Redeliver, github, WebhookInv, WaitMeansIdle
<1>7. ASSUME NEW id \in Ids, Deliver(id)
      PROVE  WebhookInv'
    <2>1. exit' # "waited" /\ UNCHANGED <<events, page>>
        BY <1>7, WebhookAssumption DEF Deliver, github
    <2>2. WebhookTypeOK' /\ QueueInv' /\ CountInv'
        <3>1. CASE id \in Range(seen)
            BY <1>2, <1>7, <2>1, <3>1 DEF Deliver
        <3>2. CASE id \notin Range(seen)
            BY <1>7, <2>1, <3>2, EnqueueKeeps DEF Deliver
        <3>. QED BY <3>1, <3>2
    <2>. QED BY <2>1, <2>2 DEF WebhookInv, WaitMeansIdle
<1>8. ASSUME NEW d \in drains, Pop(d) \/ NextJob(d) \/ Retire(d) \/ Done(d)
      PROVE  WebhookInv'
    <2>1. exit' # "waited"
        BY <1>8 DEF Pop, NextJob, Retire, Done, Work, Alive
    <2>2. WebhookTypeOK' /\ QueueInv' /\ CountInv'
        BY <1>8, PopKeeps, NextJobKeeps, RetireKeeps, DoneKeeps
    <2>. QED BY <2>1, <2>2 DEF WebhookInv, WaitMeansIdle
<1>9. ASSUME NEW d \in drains,
             \/ setStatus(d) \/ findMarkerComment(d) \/ UpsertComment(d) \/ get(d) \/ create(d)
             \/ reset(d) \/ redo(d) \/ redone(d) \/ requireReady(d) \/ reopened(d) \/ settle(d) \/ destroyBranch(d)
             \/ destroyed(d) \/ do(d) \/ Interrupted(d) \/ JobFails(d)
      PROVE  WebhookInv'
    <2>1. Alive /\ Moves(d) /\ KeepsRest
        BY <1>9, JobStep DEF WebhookInv
    <2>2. exit' # "waited"
        BY <2>1 DEF Alive, KeepsRest
    <2>. QED BY <2>1, <2>2, MovesKeeps DEF WebhookInv, WaitMeansIdle
<1>10. CASE Signal \/ Wait \/ ShutdownFails
    <2>1. UNCHANGED <<events, page, queues, drains, wg>>
        BY <1>10 DEF Signal, Wait, ShutdownFails, Ends, github
    <2>2. exit' = "waited" => wg = 0
        BY <1>10 DEF Signal, Wait, ShutdownFails, Ends
    <2>3. WaitMeansIdle'
        BY <2>1, <2>2, WaitIdle DEF WaitMeansIdle
    <2>. QED BY <1>2, <2>1, <2>3 DEF WebhookInv
<1>. QED BY <1>3, <1>4, <1>5, <1>6, <1>7, <1>8, <1>9, <1>10 DEF WebhookNext, Job

\* The start is idle.
LEMMA WebhookStart ==
    ASSUME WebhookInit
    PROVE  WebhookInv
<1>1. WebhookTypeOK
    <2>1. [commits |-> 0, status |-> None, comments |-> << >>] \in Page
        BY DEF Page
    <2>2. [running |-> FALSE, jobs |-> << >>] \in [running : BOOLEAN, jobs : Seq(Nat)]
        OBVIOUS
    <2>. QED BY <2>1, <2>2, FS_EmptySet DEF WebhookInit, WebhookTypeOK
<1>2. QueueInv /\ WaitMeansIdle
    BY DEF WebhookInit, QueueInv, WaitMeansIdle
<1>3. CountInv
    <2>1. \A p \in PRs : queues[p].jobs = << >>
        BY DEF WebhookInit
    <2>2. Waiting = {} /\ Held = {}
        BY <2>1 DEF WebhookInit, Waiting, Held
    <2>. QED BY <2>2, FS_EmptySet DEF CountInv, WebhookInit
<1>. QED BY <1>1, <1>2, <1>3 DEF WebhookInv

-----------------------------------------------------------------------------
(* The live comment. *)

\* A worker about to POST found no comment, and there is none still.
CommentInv ==
    /\ OneComment
    /\ \A d \in drains : d.pc = "post" => page[d.pr].comments = << >>

\* A step of a worker that writes no comment, and goes on to POST one only if it
\* saw none.
Quiet(d) ==
    /\ \A p \in PRs : page'[p].comments = page[p].comments
    /\ \E e : e.pr = d.pr /\ Put(d, e) /\ (e.pc = "post" => page[e.pr].comments = << >>)

\* All steps of a job but the writing of the comment are of that kind.
LEMMA QuietStep ==
    ASSUME WebhookTypeOK, NEW d \in drains,
           \/ Pop(d) \/ NextJob(d) \/ Retire(d)
           \/ setStatus(d) \/ findMarkerComment(d) \/ get(d) \/ create(d)
           \/ reset(d) \/ redo(d) \/ redone(d) \/ requireReady(d) \/ reopened(d)
           \/ settle(d) \/ destroyBranch(d) \/ destroyed(d) \/ do(d)
           \/ Interrupted(d) \/ JobFails(d)
    PROVE  Quiet(d)
<1>. DEFINE Same == \A p \in PRs : page'[p].comments = page[p].comments
<1>1. d \in Drain /\ page \in [PRs -> Page] /\ d.pr \in PRs
    BY DEF WebhookTypeOK, Drain
<1>2. ASSUME Same, NEW pc, Goto(d, pc), pc = "post" => page[d.pr].comments = << >>
      PROVE  Quiet(d)
    <2>1. [d EXCEPT !.pc = pc].pr = d.pr /\ [d EXCEPT !.pc = pc].pc = pc
        BY <1>1 DEF Drain
    <2>. QED BY <1>2, <2>1, Zenon DEF Goto, Quiet
<1>3. ASSUME Same, NEW note, Report(d, note)
      PROVE  Quiet(d)
    <2>. DEFINE e == [d EXCEPT !.note = note,
                               !.pc = IF note = "destroyed" THEN "comment" ELSE "status"]
    <2>1. e.pr = d.pr /\ e.pc # "post"
        BY <1>1 DEF Drain
    <2>2. Put(d, e)
        BY <1>3 DEF Report
    <2>. HIDE DEF e
    <2>. QED BY <1>3, <2>1, <2>2, Zenon DEF Quiet
<1>4. ASSUME Same, Reported(d)
      PROVE  Quiet(d)
    <2>. DEFINE e == [d EXCEPT !.note = None,
                               !.pc = IF d.note = "working" THEN "get" ELSE "fin"]
    <2>1. e.pr = d.pr /\ e.pc # "post"
        BY <1>1 DEF Drain
    <2>2. Put(d, e)
        BY <1>4 DEF Reported
    <2>. HIDE DEF e
    <2>. QED BY <1>4, <2>1, <2>2, Zenon DEF Quiet
<1>5. KeepQueues => Same
    BY DEF KeepQueues
<1>6. CASE Pop(d) \/ NextJob(d)
    <2>1. \A j : /\ [d EXCEPT !.job = j, !.pc = "check"].pr = d.pr
                 /\ [d EXCEPT !.job = j, !.pc = "check"].pc = "check"
                 /\ [d EXCEPT !.job = j, !.pc = "top"].pr = d.pr
                 /\ [d EXCEPT !.job = j, !.pc = "top"].pc = "top"
                 /\ [d EXCEPT !.job = j, !.pc = "status", !.note = "working"].pr = d.pr
                 /\ [d EXCEPT !.job = j, !.pc = "status", !.note = "working"].pc = "status"
        BY <1>1 DEF Drain
    <2>2. page' = page
        BY <1>6 DEF Pop, NextJob
    <2>3. CASE Pop(d)
        BY <2>1, <2>2, <2>3, Zenon DEF Pop, Quiet
    <2>4. CASE NextJob(d)
        BY <2>1, <2>2, <2>4, Zenon DEF NextJob, Quiet
    <2>. QED BY <1>6, <2>3, <2>4
<1>7. CASE Retire(d)
    BY <1>2, <1>7 DEF Retire
<1>8. CASE setStatus(d)
    <2>1. \A x : \A p \in PRs : [page EXCEPT ![d.pr].status = x][p].comments = page[p].comments
        BY <1>1 DEF Page
    <2>2. \/ page' = page
          \/ page' = [page EXCEPT ![d.pr].status = StatusOf(d.note)]
        BY <1>8 DEF setStatus, Posts
    <2>3. Same
        <3>1. CASE page' = page
            BY <3>1
        <3>2. CASE page' = [page EXCEPT ![d.pr].status = StatusOf(d.note)]
            BY <2>1, <3>2, ZenonT(30)
        <3>. QED BY <2>2, <3>1, <3>2
    <2>. QED BY <1>2, <1>8, <2>3 DEF setStatus
<1>9. CASE findMarkerComment(d)
    BY <1>2, <1>4, <1>5, <1>9, ZenonT(30) DEF findMarkerComment
<1>10. CASE get(d) \/ create(d) \/ reset(d) \/ redo(d) \/ redone(d)
    BY <1>2, <1>3, <1>5, <1>10, ZenonT(30) DEF get, create, reset, redo, redone, Calls
<1>11. CASE requireReady(d) \/ destroyed(d) \/ settle(d) \/ destroyBranch(d) \/ JobFails(d)
    <2>1. CASE requireReady(d) \/ destroyed(d) \/ settle(d) \/ destroyBranch(d)
        BY <1>2, <1>3, <1>5, <2>1, ZenonT(30) DEF requireReady, destroyed, settle, destroyBranch
    <2>2. CASE JobFails(d)
        BY <1>2, <1>3, <1>5, <2>2, ZenonT(30) DEF JobFails, EnsureFails, CloseFails, TimesOut
    <2>. QED BY <1>11, <2>1, <2>2
<1>12. CASE reopened(d)
    <2>1. (IF pr[d.pr] = "open" THEN "fin" ELSE "settle") # "post"
        BY Zenon
    <2>. QED BY <1>2, <1>5, <1>12, <2>1, ZenonT(30) DEF reopened
<1>13. CASE do(d) \/ Interrupted(d)
    <2>1. Call(d) # "post"
        BY DEF Call
    <2>. QED BY <1>2, <1>5, <1>13, <2>1 DEF do, Interrupted
<1>. QED BY <1>6, <1>7, <1>8, <1>9, <1>10, <1>11, <1>12, <1>13

\* Every step keeps the comments' invariant.  A POST is safe because its worker is
\* the branch's only one: nobody else looked and found nothing.
LEMMA CommentStep ==
    ASSUME WebhookInv, CommentInv, [WebhookNext]_webVars
    PROVE  CommentInv'
<1>1. drains \subseteq Drain /\ page \in [PRs -> Page] /\ \A d \in drains : d.pr \in PRs
    BY DEF WebhookInv, WebhookTypeOK, Drain
<1>2. ASSUME UNCHANGED page, \A d \in drains' : d \in drains \/ d.pc = "top"
      PROVE  CommentInv'
    BY <1>2 DEF CommentInv, OneComment
<1>3. CASE UNCHANGED webVars
    BY <1>2, <1>3 DEF webVars
<1>4. ASSUME NEW p \in PRs, PullRequest(p)
      PROVE  CommentInv'
    <2>1. PICK action, to : Sends(p, action, to)
        BY <1>4 DEF PullRequest
    <2>2. \A q \in PRs : page'[q].comments = page[q].comments
        <3>1. page[p] \in Page
            BY <1>1
        <3>2. \A n : [page[p] EXCEPT !.commits = n, !.status = None].comments = page[p].comments
            BY <3>1 DEF Page
        <3>. QED BY <1>1, <2>1, <3>2 DEF Sends
    <2>. QED BY <1>1, <2>1, <2>2 DEF Sends, CommentInv, OneComment
<1>5. ASSUME NEW p \in PRs, Completes(p) \/ SagaFails(p) \/ Reaped(p)
      PROVE  CommentInv'
    BY <1>2, <1>5 DEF Completes, SagaFails, Reaped, Branchd, KeepQueues
<1>6. ASSUME NEW id \in Ids, Redeliver(id) \/ Deliver(id)
      PROVE  CommentInv'
    <2>1. \A p, w : NewDrain(p, w).pc = "top"
        BY DEF NewDrain
    <2>2. UNCHANGED page /\ \A d \in drains' : d \in drains \/ d.pc = "top"
        BY <1>6, <2>1 DEF Redeliver, Deliver, enqueue, Queued
    <2>. QED BY <1>2, <2>2
<1>7. ASSUME NEW d \in drains, Quiet(d)
      PROVE  CommentInv'
    <2>1. PICK e : e.pr = d.pr /\ Put(d, e) /\ (e.pc = "post" => page[e.pr].comments = << >>)
        BY <1>7 DEF Quiet
    <2>2. \A f \in drains' : f.pr \in PRs /\ (f.pc = "post" => page[f.pr].comments = << >>)
        BY <1>1, <2>1 DEF Put, CommentInv
    <2>. QED BY <1>7, <2>2 DEF Quiet, CommentInv, OneComment
<1>8. ASSUME NEW d \in drains, Done(d)
      PROVE  CommentInv'
    BY <1>2, <1>8 DEF Done
<1>9. ASSUME NEW d \in drains, UpsertComment(d)
      PROVE  CommentInv'
    <2>. DEFINE c == page[d.pr].comments
    <2>1. c \in Seq(Notes \cup {None}) /\ d.pr \in PRs /\ Len(c) <= 1
        BY <1>1 DEF Page, CommentInv, OneComment
    <2>2. d.pc \in {"patch", "post"}
        BY <1>9 DEF UpsertComment, Work
    <2>3. \A f \in drains' : f.pc = "post" => f \in drains /\ f.pr # d.pr
        <3>1. PICK e : e.pc # "post" /\ drains' = (drains \ {d}) \cup {e}
            <4>. DEFINE e == [d EXCEPT !.note = None,
                                       !.pc = IF d.note = "working" THEN "get" ELSE "fin"]
            <4>1. e.pc # "post"
                BY <1>1 DEF Drain
            <4>. QED BY <1>9, <4>1, Zenon DEF UpsertComment, Reported, Put
        <3>. QED BY <2>2, <3>1 DEF WebhookInv, QueueInv, Serves
    <2>4. \A p \in PRs : p # d.pr => page'[p] = page[p]
        BY <1>1, <1>9 DEF UpsertComment, Posts
    <2>5. Len(page'[d.pr].comments) <= 1
        <3>1. CASE page' = page
            BY <2>1, <3>1
        <3>2. CASE d.pc = "patch" /\ page' = [page EXCEPT ![d.pr].comments[1] = d.note]
            <4>1. page'[d.pr].comments = [c EXCEPT ![1] = d.note]
                BY <1>1, <2>1, <3>2 DEF Page
            <4>2. Len([c EXCEPT ![1] = d.note]) = Len(c)
                BY <2>1
            <4>. QED BY <2>1, <4>1, <4>2
        <3>3. CASE d.pc = "post" /\ page' = [page EXCEPT ![d.pr].comments = Append(@, d.note)]
            <4>1. page'[d.pr].comments = Append(c, d.note)
                BY <1>1, <2>1, <3>3 DEF Page
            <4>2. c = << >>
                BY <3>3 DEF CommentInv
            <4>. QED BY <4>1, <4>2
        <3>. QED BY <1>9, <3>1, <3>2, <3>3 DEF UpsertComment, Work, Posts
    <2>. QED BY <1>1, <2>3, <2>4, <2>5 DEF CommentInv, OneComment
<1>10. CASE Signal \/ Wait \/ ShutdownFails
    BY <1>2, <1>10 DEF Signal, Wait, ShutdownFails, Ends
<1>11. ASSUME NEW d \in drains, Job(d) \/ do(d) \/ Interrupted(d) \/ JobFails(d)
       PROVE  CommentInv'
    <2>1. WebhookTypeOK
        BY DEF WebhookInv
    <2>. QED BY <1>7, <1>8, <1>9, <1>11, <2>1, QuietStep DEF Job
<1>. QED BY <1>3, <1>4, <1>5, <1>6, <1>10, <1>11 DEF WebhookNext

-----------------------------------------------------------------------------

\* The invariant holds throughout.
LEMMA WebhookInvariant == WebhookSpec => []WebhookInv
<1>1. WebhookInit => WebhookInv
    BY WebhookStart
<1>2. WebhookInv /\ [WebhookNext]_webVars => WebhookInv'
    BY WebhookStep
<1>. QED BY <1>1, <1>2, PTL DEF WebhookSpec

\* However many deliveries, redeliveries and workers there are, a branch's jobs run
\* one at a time: enqueue starts a worker only for a branch without one, and a
\* worker that finds its queue empty retires under the same lock.
THEOREM JobsOneAtATime == WebhookSpec => []OneAtATime
<1>1. WebhookInv => OneAtATime
    <2>1. SUFFICES ASSUME WebhookInv, NEW p \in PRs
                   PROVE  Cardinality(Working(p)) <= 1
        BY DEF OneAtATime
    <2>2. \A d, e \in Working(p) : d = e
        BY <2>1 DEF WebhookInv, QueueInv, Serves, Working
    <2>3. CASE Working(p) = {}
        BY <2>3, FS_EmptySet
    <2>4. CASE Working(p) # {}
        <3>1. PICK d \in Working(p) : Working(p) = {d}
            BY <2>2, <2>4
        <3>. QED BY <3>1, FS_Singleton
    <2>. QED BY <2>3, <2>4
<1>. QED BY <1>1, WebhookInvariant, PTL

\* The process ends through Wait only with every acknowledged delivery handled: the
\* WaitGroup counts exactly the jobs waiting and those in hand, and a branch with a
\* job waiting has a worker.
THEOREM WaitLeavesNothing == WebhookSpec => []WaitMeansIdle
<1>1. WebhookInv => WaitMeansIdle
    BY DEF WebhookInv
<1>. QED BY <1>1, WebhookInvariant, PTL

\* A pull request never gets a second live comment, for any number of deliveries,
\* workers and failures.  The look and the POST are two calls, with steps of all
\* other workers in between; the queue is what keeps them from interfering.
THEOREM CommentStaysOne == WebhookSpec => []OneComment
<1>1. WebhookInit => CommentInv
    BY DEF WebhookInit, CommentInv, OneComment
<1>2. WebhookInv /\ CommentInv /\ [WebhookNext]_webVars => CommentInv'
    BY CommentStep
<1>3. CommentInv => OneComment
    BY DEF CommentInv
<1>. QED BY <1>1, <1>2, <1>3, WebhookInvariant, PTL DEF WebhookSpec
=============================================================================
