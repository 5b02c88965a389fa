--------------------------- MODULE RegistryProofs ---------------------------
(***************************************************************************)
(* The registry's invariants, for any sets of rows, layers, names, volumes *)
(* and containers and any interleaving of any clients' calls.              *)
(***************************************************************************)
EXTENDS Registry, WellFoundedInduction, TLAPS

\* The provers a leaf is tried with, unless it names its own.
USE SMTT(10), Zenon, SMTT(30)

\* The state machine only leads to stored states, and neither a row that was
\* never inserted nor a tombstone leads anywhere.
LEMMA LegalBranchFacts ==
    /\ \A s \in States : legalBranch(s) \subseteq States \ {"absent", "creating"}
    /\ legalBranch("absent") = {}
    /\ legalBranch("destroyed") = {}
    /\ "ready" \in legalBranch("resetting")
    /\ "resetting" \in legalBranch("ready")
    /\ "failed" \in legalBranch("resetting")
    /\ "failed" \in legalBranch("creating")
BY DEF legalBranch, States

\* The row updates of registry.go's UPDATE and INSERT statements give rows.
LEMMA RowState == ASSUME NEW r \in Row, NEW s \in States
                  PROVE  [r EXCEPT !.state = s, !.stale = FALSE] \in Row
BY Zenon DEF Row

\* MarkBranchReady's update.
LEMMA RowMarked == ASSUME NEW r \in Row, NEW c \in Cids \cup {None}
                   PROVE  [r EXCEPT !.state = "ready", !.stale = FALSE, !.cid = c] \in Row
BY Zenon DEF Row, States

\* SetBranchContainer's update.
LEMMA RowOwned == ASSUME NEW r \in Row, NEW c \in Cids \cup {None}
                  PROVE  [r EXCEPT !.cid = c, !.stale = FALSE] \in Row
BY Zenon DEF Row

\* UpdateBranchEndpoint's update.
LEMMA RowPointed == ASSUME NEW r \in Row, NEW c \in Cids \cup {None}
                    PROVE  [r EXCEPT !.cid = c] \in Row
BY DEF Row

\* Touching a row, its ageing and its expiry.
LEMMA RowTimed == ASSUME NEW r \in Row
                  PROVE  /\ [r EXCEPT !.stale = FALSE] \in Row
                         /\ [r EXCEPT !.stale = TRUE] \in Row
                         /\ [r EXCEPT !.ttl = "past"] \in Row
BY ZenonT(60) DEF Row

\* SetBranchPendingVolume's update.
LEMMA RowPending == ASSUME NEW r \in Row, NEW v \in Vols \cup {None}
                    PROVE  [r EXCEPT !.pending = v] \in Row
BY DEF Row

\* CommitFreeze's updates of the child and of the parent.
LEMMA RowFrozen == ASSUME NEW r \in Row, NEW l \in LayerIds, NEW v \in Vols, NEW c \in Cids
                   PROVE  /\ [r EXCEPT !.base = l, !.stale = FALSE] \in Row
                          /\ [r EXCEPT !.rw = v, !.base = l, !.cid = c, !.state = "ready",
                                       !.pending = None, !.stale = FALSE] \in Row
BY ZenonT(60) DEF Row, States

\* CreateBranchCtx's insert.
LEMMA RowInserted == ASSUME NEW n \in Names, NEW v \in Vols,
                            NEW parent \in Names \cup {None}, NEW ttl \in {"never", "later"}
                     PROVE  [NoRow EXCEPT !.name = n, !.state = "creating", !.rw = v,
                                          !.parent = parent, !.ttl = ttl] \in Row
BY Zenon DEF Row, NoRow, States

\* CommitFreeze's insert of the frozen layer.
LEMMA LayerInserted == ASSUME NEW v \in Vols, NEW prev \in LayerIds \cup {None}
                       PROVE  [st |-> "live", vol |-> v, prev |-> prev] \in Layer
BY DEF Layer

\* DeleteLayer's delete.
LEMMA LayerGone == ASSUME NEW r \in Layer PROVE [r EXCEPT !.st = "gone"] \in Layer
BY DEF Layer

\* journalTx appends one entry to a branch's journal.
LEMMA JournalTyped ==
    ASSUME RegistryTypeOK, NEW id \in RowIds, NEW a \in States, NEW b \in States,
           Journal(id, <<<<a, b>>>>)
    PROVE  journal' \in [RowIds -> Seq(States \X States)]
<1>1. <<<<a, b>>>> \in Seq(States \X States)
    OBVIOUS
<1>2. journal[id] \o <<<<a, b>>>> \in Seq(States \X States)
    BY <1>1 DEF RegistryTypeOK
<1> QED
    BY <1>2 DEF Journal, RegistryTypeOK

\* A row's state column holds a state.
LEMMA StateOf == ASSUME RegistryTypeOK, NEW id \in RowIds
                 PROVE  branches[id].state \in States
BY DEF RegistryTypeOK, Row

\* A row's base_layer_id is a layer or NULL.
LEMMA BaseOf == ASSUME RegistryTypeOK, NEW id \in RowIds
                PROVE  branches[id].base \in LayerIds \cup {None}
BY DEF RegistryTypeOK, Row

\* Every method keeps the tables well formed: whatever the arguments a caller
\* passes, a row written by registry.go is a row its scanners can read back.
LEMMA TypeInductive == RegistryTypeOK /\ [RegistryNext]_regVars => RegistryTypeOK'
<1> SUFFICES ASSUME RegistryTypeOK, [RegistryNext]_regVars PROVE RegistryTypeOK'
    OBVIOUS
<1> USE DEF RegistryTypeOK
<1>1. ASSUME NEW id \in RowIds, BranchMethod(id) PROVE RegistryTypeOK'
    <2>1. ASSUME NEW n \in Names, NEW rw \in Vols, NEW parent \in Names \cup {None},
                 NEW ttl \in {"never", "later"}, CreateBranch(id, n, rw, parent, ttl)
          PROVE  RegistryTypeOK'
        BY <2>1, RowInserted, JournalTyped, Zenon DEF CreateBranch, States
    <2>2. ASSUME NEW to \in States, TransitionBranch(id, to) PROVE RegistryTypeOK'
        BY <2>2, RowState, JournalTyped, StateOf, Zenon DEF TransitionBranch
    <2>3. ASSUME NEW c \in Cids \cup {None}, MarkBranchReady(id, c) PROVE RegistryTypeOK'
        BY <2>3, RowMarked, JournalTyped, StateOf, Zenon DEF MarkBranchReady, States
    <2>4. ASSUME NEW c \in Cids \cup {None}, SetBranchContainer(id, c) PROVE RegistryTypeOK'
        BY <2>4, RowOwned, Zenon DEF SetBranchContainer
    <2>5. CASE TouchBranch(id)
        BY <2>5, RowTimed, Zenon DEF TouchBranch
    <2>6. CASE NoteBranch(id)
        BY <2>6, RowTimed, JournalTyped, StateOf, Zenon DEF NoteBranch
    <2>7. ASSUME NEW v \in Vols \cup {None}, SetBranchPendingVolume(id, v)
          PROVE  RegistryTypeOK'
        BY <2>7, RowPending, Zenon DEF SetBranchPendingVolume
    <2>8. ASSUME NEW kid \in RowIds, NEW l \in LayerIds, NEW frozen \in Vols,
                 NEW newRW \in Vols, NEW c \in Cids, CommitFreeze(id, kid, l, frozen, newRW, c)
          PROVE  RegistryTypeOK'
        <3>1. layers' \in [LayerIds -> Layer]
            BY <2>8, BaseOf, LayerInserted DEF CommitFreeze
        <3>2. branches' \in [RowIds -> Row]
            BY <2>8, RowFrozen, Zenon DEF CommitFreeze, CanCommitFreeze
        <3>3. journal' \in [RowIds -> Seq(States \X States)]
            BY <2>8, JournalTyped, StateOf, Zenon DEF CommitFreeze, States
        <3> QED
            BY <3>1, <3>2, <3>3
    <2>9. ASSUME NEW c \in Cids \cup {None}, NEW d \in Cids, UpdateBranchEndpoint(id, c, d)
          PROVE  RegistryTypeOK'
        BY <2>9, RowPointed DEF UpdateBranchEndpoint
    <2>10. ASSUME NEW c \in Cids \cup {None}, NEW d \in Cids, UpdateBranchEndpointCtx(id, c, d)
           PROVE  RegistryTypeOK'
        BY <2>10, RowOwned, JournalTyped, Zenon DEF UpdateBranchEndpointCtx, States
    <2>11. ASSUME NEW c \in Cids \cup {None}, FailReadyBranch(id, c) PROVE RegistryTypeOK'
        <3>1. <<"ready", "resetting">> \in States \X States /\ <<"resetting", "failed">> \in States \X States
            BY DEF States
        <3>2. journal[id] \o <<<<"ready", "resetting">>, <<"resetting", "failed">>>>
                \in Seq(States \X States)
            BY <3>1
        <3>3. journal' \in [RowIds -> Seq(States \X States)]
            BY <2>11, <3>2 DEF FailReadyBranch, Journal
        <3> QED
            BY <2>11, <3>3, RowState, Zenon DEF FailReadyBranch, States
    <2>12. CASE FailStuckBranch(id)
        BY <2>12, RowState, JournalTyped, StateOf, Zenon DEF FailStuckBranch, States
    <2>13. CASE Age(id)
        BY <2>13, RowTimed, Zenon DEF Age
    <2>14. CASE Expire(id)
        BY <2>14, RowTimed, Zenon DEF Expire
    <2> QED
        BY Zenon, <1>1, <2>1, <2>2, <2>3, <2>4, <2>5, <2>6, <2>7, <2>8, <2>9, <2>10,
           <2>11, <2>12, <2>13, <2>14 DEF BranchMethod
<1>2. ASSUME NEW l \in LayerIds, DeleteLayer(l) PROVE RegistryTypeOK'
    BY <1>2, LayerGone DEF DeleteLayer
<1>3. CASE UNCHANGED regVars
    BY <1>3 DEF regVars
<1> QED
    BY <1>1, <1>2, <1>3 DEF RegistryNext

\* The tables are well formed in every reachable state of the registry.
THEOREM RegistryTyped == RegistrySpec => []RegistryTypeOK
<1>1. RegistryInit => RegistryTypeOK
    BY DEF RegistryInit, RegistryTypeOK, NoRow, NoLayer, Row, Layer, States
<1> QED
    BY <1>1, TypeInductive, PTL DEF RegistrySpec
-----------------------------------------------------------------------------
(* The journal is the row's history. *)

\* One more legal entry extends a history.
LEMMA HistoryGrows ==
    ASSUME NEW j \in Seq(States \X States), NEW s \in States, IsHistory(j, s),
           NEW t \in States \ {"absent"}, Edge(<<s, t>>)
    PROVE  IsHistory(j \o <<<<s, t>>>>, t)
<1> DEFINE k == j \o <<<<s, t>>>>
<1>1. k \in Seq(States \X States) /\ Len(k) = Len(j) + 1 /\ k # << >>
    OBVIOUS
<1>2. k[Len(k)] = <<s, t>> /\ \A i \in 1..Len(j) : k[i] = j[i]
    OBVIOUS
<1> HIDE DEF k
<1>3. \A i \in 1..Len(k) : Edge(k[i])
    <2> SUFFICES ASSUME NEW i \in 1..Len(k) PROVE Edge(k[i])
        OBVIOUS
    <2>1. CASE i = Len(k)
        BY <1>2, <2>1
    <2>2. CASE i \in 1..Len(j)
        BY <1>2, <2>2 DEF IsHistory
    <2> QED
        BY <1>1, <2>1, <2>2
<1>4. \A i \in 1..(Len(k) - 1) : k[i][2] = k[i + 1][1]
    <2> SUFFICES ASSUME NEW i \in 1..(Len(k) - 1) PROVE k[i][2] = k[i + 1][1]
        OBVIOUS
    <2>1. CASE i = Len(j)
        BY <1>1, <1>2, <2>1 DEF IsHistory
    <2>2. CASE i < Len(j)
        BY <1>1, <1>2, <2>2 DEF IsHistory
    <2> QED
        BY <1>1, <2>1, <2>2
<1> QED
    BY <1>1, <1>2, <1>3, <1>4 DEF IsHistory, k

\* A method that journals the state change of one row keeps every history.
LEMMA HistoryStep ==
    ASSUME RegistryTypeOK, JournalIsHistory, NEW id \in RowIds,
           NEW t \in States \ {"absent"}, Edge(<<branches[id].state, t>>),
           Journal(id, <<<<branches[id].state, t>>>>), branches'[id].state = t,
           \A i \in RowIds \ {id} : branches'[i].state = branches[i].state
    PROVE  JournalIsHistory'
<1> SUFFICES ASSUME KeepJournal, NEW i \in RowIds
             PROVE  IsHistory(journal'[i], branches'[i].state)
    BY DEF JournalIsHistory
<1>1. CASE i = id
    <2>1. IsHistory(journal[id] \o <<<<branches[id].state, t>>>>, t)
        BY HistoryGrows, StateOf, Zenon DEF RegistryTypeOK, JournalIsHistory
    <2> QED
        BY <1>1, <2>1, Zenon DEF Journal, RegistryTypeOK
<1>2. CASE i # id
    BY <1>2 DEF Journal, RegistryTypeOK, JournalIsHistory
<1> QED
    BY <1>1, <1>2

\* A method that changes no state and journals nothing keeps every history.
LEMMA HistorySame ==
    ASSUME JournalIsHistory, journal' = journal,
           \A i \in RowIds : branches'[i].state = branches[i].state
    PROVE  JournalIsHistory'
BY DEF JournalIsHistory

-----------------------------------------------------------------------------
(* What a method can do to states, names and journals. *)

\* Row id is inserted or moves along an edge of the state machine, journaled;
\* no name changes, except that an inserted row gets one no live row holds.
Moves(id, t) ==
    /\ branches'[id].state = t
    /\ Edge(<<branches[id].state, t>>)
    /\ Journal(id, <<<<branches[id].state, t>>>>)
    /\ \A i \in RowIds \ {id} : /\ branches'[i].state = branches[i].state
                                /\ branches'[i].name = branches[i].name
    /\ IF branches[id].state = "absent" THEN ByName(branches'[id].name) = {}
       ELSE branches'[id].name = branches[id].name

\* No row changes its state or its name, and nothing is journaled.
Keeps ==
    /\ journal' = journal
    /\ \A i \in RowIds : /\ branches'[i].state = branches[i].state
                         /\ branches'[i].name = branches[i].name

\* Every method of registry.go moves one row, keeps them all, or is
\* FailReadyBranch, which makes two moves in one transaction.
LEMMA MethodEffect ==
    ASSUME RegistryTypeOK, NEW id \in RowIds, BranchMethod(id)
    PROVE  \/ \E t \in States \ {"absent"} : Moves(id, t)
           \/ Keeps
           \/ \E c \in Cids \cup {None} : FailReadyBranch(id, c)
<1>1. ASSUME NEW n \in Names, NEW rw \in Vols, NEW parent \in Names \cup {None},
             NEW ttl \in {"never", "later"}, CreateBranch(id, n, rw, parent, ttl)
      PROVE  Moves(id, "creating")
    BY <1>1, Zenon DEF CreateBranch, Moves, Edge, Exists, NoRow, RegistryTypeOK
<1>2. ASSUME NEW to \in States, TransitionBranch(id, to) PROVE Moves(id, to) /\ to # "absent"
    BY <1>2, StateOf, LegalBranchFacts
       DEF TransitionBranch, Moves, Edge, RegistryTypeOK, Row
<1>3. ASSUME NEW c \in Cids \cup {None}, MarkBranchReady(id, c) PROVE Moves(id, "ready")
    BY <1>3, LegalBranchFacts DEF MarkBranchReady, Moves, Edge, RegistryTypeOK, Row
<1>4. ASSUME NEW c \in Cids \cup {None}, SetBranchContainer(id, c) PROVE Keeps
    BY <1>4 DEF SetBranchContainer, Keeps, RegistryTypeOK, Row
<1>5. CASE TouchBranch(id)
    BY <1>5 DEF TouchBranch, Keeps, RegistryTypeOK, Row
<1>6. ASSUME NoteBranch(id) PROVE Moves(id, branches[id].state) /\ branches[id].state # "absent"
    BY <1>6 DEF NoteBranch, Exists, Moves, Edge, RegistryTypeOK, Row
<1>7. ASSUME NEW v \in Vols \cup {None}, SetBranchPendingVolume(id, v) PROVE Keeps
    BY <1>7 DEF SetBranchPendingVolume, Keeps, RegistryTypeOK, Row
<1>8. ASSUME NEW kid \in RowIds, NEW l \in LayerIds, NEW frozen \in Vols,
             NEW newRW \in Vols, NEW c \in Cids, CommitFreeze(id, kid, l, frozen, newRW, c)
      PROVE  Moves(id, "ready")
    <2>1. /\ \A i \in RowIds \ {id} : /\ branches'[i].state = branches[i].state
                                      /\ branches'[i].name = branches[i].name
          /\ branches'[id].state = "ready" /\ branches'[id].name = branches[id].name
        <3>1. branches[id] \in Row /\ branches[kid] \in Row /\ id # kid
            BY <1>8 DEF CommitFreeze, CanCommitFreeze, RegistryTypeOK
        <3>2. branches'[id] = [branches[id] EXCEPT !.rw = newRW, !.base = l, !.cid = c,
                                  !.state = "ready", !.pending = None, !.stale = FALSE]
            BY <1>8, <3>1 DEF CommitFreeze, RegistryTypeOK
        <3>3. branches'[kid] = [branches[kid] EXCEPT !.base = l, !.stale = FALSE]
            BY <1>8, <3>1 DEF CommitFreeze, RegistryTypeOK
        <3>4. \A i \in RowIds \ {id, kid} : branches'[i] = branches[i]
            BY <1>8, <3>1 DEF CommitFreeze, RegistryTypeOK
        <3>5. branches'[kid].state = branches[kid].state /\ branches'[kid].name = branches[kid].name
            BY <3>1, <3>3 DEF Row
        <3>6. branches'[id].state = "ready" /\ branches'[id].name = branches[id].name
            BY <3>1, <3>2 DEF Row
        <3> QED
            BY <3>4, <3>5, <3>6
    <2>2. branches[id].state = "resetting" /\ Journal(id, <<<<branches[id].state, "ready">>>>)
        BY <1>8 DEF CommitFreeze, CanCommitFreeze
    <2> QED
        BY <2>1, <2>2, LegalBranchFacts DEF Moves, Edge
<1>9. ASSUME NEW c \in Cids \cup {None}, NEW d \in Cids, UpdateBranchEndpoint(id, c, d)
      PROVE  Keeps
    BY <1>9 DEF UpdateBranchEndpoint, Keeps, RegistryTypeOK, Row
<1>10. ASSUME NEW c \in Cids \cup {None}, NEW d \in Cids, UpdateBranchEndpointCtx(id, c, d)
       PROVE  Moves(id, "ready")
    BY <1>10 DEF UpdateBranchEndpointCtx, Moves, Edge, RegistryTypeOK, Row
<1>11. ASSUME FailStuckBranch(id) PROVE Moves(id, "failed")
    BY <1>11, LegalBranchFacts DEF FailStuckBranch, Stuck, Moves, Edge, RegistryTypeOK, Row
<1>12. CASE Age(id)
    BY <1>12 DEF Age, Keeps, RegistryTypeOK, Row
<1>13. CASE Expire(id)
    BY <1>13 DEF Expire, Keeps, RegistryTypeOK, Row
<1> QED
    BY <1>1, <1>2, <1>3, <1>4, <1>5, <1>6, <1>7, <1>8, <1>9, <1>10, <1>11, <1>12,
       <1>13, StateOf DEF BranchMethod, States
\* FailReadyBranch journals ready -> resetting -> failed for a row it fails.
LEMMA FailReadyEffect ==
    ASSUME RegistryTypeOK, NEW id \in RowIds, NEW c \in Cids \cup {None}, FailReadyBranch(id, c)
    PROVE  /\ branches[id].state = "ready" /\ branches'[id].state = "failed"
           /\ \A i \in RowIds : branches'[i].name = branches[i].name
           /\ \A i \in RowIds \ {id} : branches'[i].state = branches[i].state
BY DEF FailReadyBranch, RegistryTypeOK, Row

-----------------------------------------------------------------------------

\* No method revives a tombstone.
LEMMA TombstoneKept ==
    ASSUME RegistryTypeOK, [RegistryNext]_regVars, NEW i \in RowIds,
           branches[i].state = "destroyed"
    PROVE  branches'[i].state = "destroyed"
<1>1. ASSUME NEW id \in RowIds, BranchMethod(id) PROVE branches'[i].state = "destroyed"
    <2>1. ASSUME NEW t \in States \ {"absent"}, Moves(id, t) PROVE branches'[i].state = "destroyed"
        BY <2>1, LegalBranchFacts DEF Moves, Edge
    <2>2. ASSUME NEW c \in Cids \cup {None}, FailReadyBranch(id, c)
          PROVE  branches'[i].state = "destroyed"
        BY <2>2, FailReadyEffect
    <2>3. CASE Keeps
        BY <2>3 DEF Keeps
    <2> QED
        BY <1>1, <2>1, <2>2, <2>3, MethodEffect
<1> QED
    BY <1>1 DEF RegistryNext, DeleteLayer, regVars

\* A destroyed row keeps its state for ever, whatever the clients call: the
\* next branch of its name is a new row (legalBranch, registry.go).
THEOREM TombstonesFinal == RegistrySpec => TombstoneFinal
<1>1. RegistryTypeOK /\ [RegistryNext]_regVars
        => [\A id \in RowIds : branches[id].state = "destroyed"
                                  => branches'[id].state = "destroyed"]_regVars
    BY TombstoneKept
<1> QED
    BY <1>1, RegistryTyped, PTL DEF RegistrySpec, TombstoneFinal

\* Every method keeps live names unique: only CreateBranchCtx takes a name, and it
\* refuses one a live row has.
LEMMA UniqueInductive ==
    RegistryTypeOK /\ UniqueLiveNames /\ [RegistryNext]_regVars => UniqueLiveNames'
<1> SUFFICES ASSUME RegistryTypeOK, UniqueLiveNames, [RegistryNext]_regVars
             PROVE  UniqueLiveNames'
    OBVIOUS
<1>1. ASSUME NEW id \in RowIds, BranchMethod(id) PROVE UniqueLiveNames'
    <2>1. ASSUME NEW t \in States \ {"absent"}, Moves(id, t) PROVE UniqueLiveNames'
        BY <2>1, LegalBranchFacts DEF Moves, Edge, UniqueLiveNames, Live, ByName
    <2>2. ASSUME NEW c \in Cids \cup {None}, FailReadyBranch(id, c) PROVE UniqueLiveNames'
        BY <2>2, FailReadyEffect DEF UniqueLiveNames, Live
    <2>3. CASE Keeps
        BY <2>3 DEF Keeps, UniqueLiveNames, Live
    <2> QED
        BY <1>1, <2>1, <2>2, <2>3, MethodEffect
<1>2. ASSUME NEW l \in LayerIds, DeleteLayer(l) PROVE UniqueLiveNames'
    BY <1>2 DEF DeleteLayer, UniqueLiveNames, Live
<1>3. CASE UNCHANGED regVars
    BY <1>3 DEF regVars, UniqueLiveNames, Live
<1> QED
    BY <1>1, <1>2, <1>3 DEF RegistryNext

\* Two live rows never carry one name, so GetBranchByName and every reconcile
\* re-check by name speak of one branch.
THEOREM LiveNamesUnique == RegistrySpec => []UniqueLiveNames
<1>1. RegistryInit => UniqueLiveNames
    BY DEF RegistryInit, UniqueLiveNames, Live, NoRow
<1> QED
    BY <1>1, RegistryTyped, UniqueInductive, PTL DEF RegistrySpec

\* Sequences with the same entries are the same.
LEMMA SameSeq ==
    ASSUME NEW S, NEW s \in Seq(S), NEW t \in Seq(S), Len(s) = Len(t),
           \A i \in 1..Len(s) : s[i] = t[i]
    PROVE  s = t
<1>1. s = [i \in 1..Len(s) |-> s[i]] /\ t = [i \in 1..Len(t) |-> t[i]]
    OBVIOUS
<1> QED
    BY <1>1

\* It does not matter in which order entries are appended together.
LEMMA ConcatTwice ==
    ASSUME NEW S, NEW s \in Seq(S), NEW t \in Seq(S), NEW u \in Seq(S)
    PROVE  (s \o t) \o u = s \o (t \o u)
<1>1. s \o t \in Seq(S) /\ t \o u \in Seq(S)
    OBVIOUS
<1>2. (s \o t) \o u \in Seq(S) /\ s \o (t \o u) \in Seq(S)
    BY <1>1
<1>3. /\ Len(s \o t) = Len(s) + Len(t) /\ Len(t \o u) = Len(t) + Len(u)
      /\ Len(s) \in Nat /\ Len(t) \in Nat /\ Len(u) \in Nat
    OBVIOUS
<1>4. /\ Len((s \o t) \o u) = Len(s) + Len(t) + Len(u)
      /\ Len(s \o (t \o u)) = Len(s) + Len(t) + Len(u)
    BY <1>1, <1>3
<1>5. ASSUME NEW i \in 1..(Len(s) + Len(t) + Len(u))
      PROVE  ((s \o t) \o u)[i] = (s \o (t \o u))[i]
    BY <1>1, <1>3
<1> QED
    BY <1>2, <1>4, <1>5, SameSeq, Zenon

\* Two journal entries, one appended to the other.
LEMMA TwoEntries == ASSUME NEW S, NEW a \in S, NEW b \in S PROVE <<a>> \o <<b>> = <<a, b>>
<1>1. /\ <<a>> \o <<b>> \in Seq(S) /\ <<a, b>> \in Seq(S)
      /\ Len(<<a>> \o <<b>>) = Len(<<a, b>>)
      /\ \A i \in 1..Len(<<a, b>>) : (<<a>> \o <<b>>)[i] = <<a, b>>[i]
    OBVIOUS
<1> QED
    BY <1>1, SameSeq, Zenon

\* Two entries of one transaction extend a history as two calls would.
LEMMA HistoryFailReady ==
    ASSUME RegistryTypeOK, JournalIsHistory, NEW id \in RowIds,
           NEW c \in Cids \cup {None}, FailReadyBranch(id, c)
    PROVE  JournalIsHistory'
<1> DEFINE j == journal[id]
           j1 == j \o <<<<"ready", "resetting">>>>
           j2 == j1 \o <<<<"resetting", "failed">>>>
<1> SUFFICES ASSUME KeepJournal, NEW i \in RowIds
             PROVE  IsHistory(journal'[i], branches'[i].state)
    BY DEF JournalIsHistory
<1>1. j \in Seq(States \X States) /\ IsHistory(j, "ready")
    BY FailReadyEffect DEF RegistryTypeOK, JournalIsHistory
<1>2. <<"ready", "resetting">> \in States \X States /\ <<"resetting", "failed">> \in States \X States
    BY DEF States
<1>3. j1 \in Seq(States \X States)
    BY <1>1, <1>2
<1>4. /\ "ready" \in States /\ "resetting" \in States \ {"absent"}
      /\ "failed" \in States \ {"absent"}
      /\ Edge(<<"ready", "resetting">>) /\ Edge(<<"resetting", "failed">>)
    BY LegalBranchFacts DEF Edge, States
<1>5. IsHistory(j1, "resetting")
    BY <1>1, <1>4, HistoryGrows, Zenon
<1>6. IsHistory(j2, "failed")
    <2> HIDE DEF j1
    <2> QED BY <1>3, <1>4, <1>5, HistoryGrows, Zenon
<1>7. j \o <<<<"ready", "resetting">>, <<"resetting", "failed">>>> = j2
    <2> DEFINE e1 == <<"ready", "resetting">>
               e2 == <<"resetting", "failed">>
    <2>1. <<e1>> \in Seq(States \X States) /\ <<e2>> \in Seq(States \X States)
        BY <1>2
    <2>2. <<e1>> \o <<e2>> = <<e1, e2>>
        BY <1>2, TwoEntries, Zenon
    <2> QED
        BY <1>1, <2>1, <2>2, ConcatTwice, SMTT(30)
<1>8. CASE i = id
    BY <1>6, <1>7, <1>8, FailReadyEffect, Zenon DEF FailReadyBranch, Journal, RegistryTypeOK
<1>9. CASE i # id
    BY <1>9, FailReadyEffect, Zenon DEF FailReadyBranch, Journal, RegistryTypeOK, JournalIsHistory
<1> QED
    BY <1>8, <1>9

\* Every method that moves a row journals the same move in the same transaction.
LEMMA HistoryInductive ==
    RegistryTypeOK /\ JournalIsHistory /\ [RegistryNext]_regVars => JournalIsHistory'
<1> SUFFICES ASSUME RegistryTypeOK, JournalIsHistory, [RegistryNext]_regVars
             PROVE  JournalIsHistory'
    OBVIOUS
<1>1. ASSUME NEW id \in RowIds, BranchMethod(id) PROVE JournalIsHistory'
    <2>1. ASSUME NEW t \in States \ {"absent"}, Moves(id, t) PROVE JournalIsHistory'
        BY <2>1, HistoryStep DEF Moves
    <2>2. ASSUME NEW c \in Cids \cup {None}, FailReadyBranch(id, c) PROVE JournalIsHistory'
        BY <2>2, HistoryFailReady
    <2>3. CASE Keeps
        BY <2>3, HistorySame DEF Keeps
    <2> QED
        BY <1>1, <2>1, <2>2, <2>3, MethodEffect
<1>2. ASSUME NEW l \in LayerIds, DeleteLayer(l) PROVE JournalIsHistory'
    BY <1>2, HistorySame DEF DeleteLayer
<1>3. CASE UNCHANGED regVars
    BY <1>3, HistorySame DEF regVars
<1> QED
    BY <1>1, <1>2, <1>3 DEF RegistryNext

\* The journal `pgb history' prints is always an unbroken walk of the state
\* machine from the row's insert to its current state: each method writes the
\* state and its transitions row in one transaction.
THEOREM JournalTrue == RegistrySpec => []JournalIsHistory
<1>1. RegistryInit => JournalIsHistory
    BY DEF RegistryInit, JournalIsHistory, IsHistory, NoRow
<1> QED
    BY <1>1, RegistryTyped, HistoryInductive, PTL DEF RegistrySpec

-----------------------------------------------------------------------------

\* Every method keeps layer references valid: DeleteLayer refuses a referenced
\* layer, and CommitFreeze inserts the layer it refers to.
LEMMA ForeignKeyInductive ==
    RegistryTypeOK /\ LayerForeignKey /\ [RegistryNext]_regVars => LayerForeignKey'
<1> SUFFICES ASSUME RegistryTypeOK, LayerForeignKey, [RegistryNext]_regVars
             PROVE  LayerForeignKey'
    OBVIOUS
<1>1. ASSUME NEW id \in RowIds, NEW kid \in RowIds, NEW l \in LayerIds, NEW frozen \in Vols,
             NEW newRW \in Vols, NEW c \in Cids, CommitFreeze(id, kid, l, frozen, newRW, c)
      PROVE  LayerForeignKey'
    <2>1. /\ layers[l].st = "absent"
          /\ layers'[l] = [st |-> "live", vol |-> frozen, prev |-> branches[id].base]
          /\ \A k \in LayerIds \ {l} : layers'[k] = layers[k]
          /\ branches[id].base # None => layers[branches[id].base].st = "live"
        BY <1>1 DEF CommitFreeze, CanCommitFreeze, RegistryTypeOK
    <2>2. branches[id].base \in LayerIds \cup {None}
        BY BaseOf
    <2>3. \A k \in LayerIds : layers[k].prev \in LayerIds \cup {None}
        BY DEF RegistryTypeOK, Layer
    <2> QED
        BY <2>1, <2>2, <2>3 DEF LayerForeignKey, LiveLayers
<1>2. ASSUME NEW l \in LayerIds, DeleteLayer(l) PROVE LayerForeignKey'
    <2>1. /\ layers'[l].st = "gone" /\ \A k \in LayerIds \ {l} : layers'[k] = layers[k]
          /\ \A k \in LiveLayers : layers[k].prev # l
        BY <1>2 DEF DeleteLayer, RegistryTypeOK, Layer
    <2>2. \A k \in LayerIds : layers[k].prev \in LayerIds \cup {None}
        BY DEF RegistryTypeOK, Layer
    <2> QED
        BY <2>1, <2>2 DEF LayerForeignKey, LiveLayers
<1>3. CASE UNCHANGED layers
    BY <1>3 DEF LayerForeignKey, LiveLayers
<1> QED
    BY <1>1, <1>2, <1>3, ZenonT(60)
    DEF RegistryNext, BranchMethod, regVars, CreateBranch, TransitionBranch, MarkBranchReady,
        SetBranchContainer, TouchBranch, NoteBranch, SetBranchPendingVolume, UpdateBranchEndpoint,
        UpdateBranchEndpointCtx, FailReadyBranch, FailStuckBranch, Age, Expire

\* A live layer's parent layer is always live, so LayerChain never walks into
\* a deleted row from a live one: CommitFreeze checks the base it chains onto,
\* DeleteLayer what chains onto the layer it deletes.
THEOREM LayersChained == RegistrySpec => []LayerForeignKey
<1>1. RegistryInit => LayerForeignKey
    BY DEF RegistryInit, LayerForeignKey, LiveLayers, NoLayer
<1> QED
    BY <1>1, RegistryTyped, ForeignKeyInductive, PTL DEF RegistrySpec

-----------------------------------------------------------------------------
(* The walk along parent_layer_id. *)

\* A set of numbers has a least one.
LEMMA LeastNumber ==
    ASSUME NEW T \in SUBSET Nat, T # {}
    PROVE  \E m \in T : \A k \in T : m <= k
<1>1. PICK x \in T : \A y \in T : ~ (<<y, x>> \in OpToRel(<, Nat))
    BY WFMin, NatLessThanWellFounded, Zenon
<1>2. \A y \in T : ~ (y < x)
    BY <1>1, Zenon DEF OpToRel
<1> QED
    BY <1>2

\* Induction, for the numbers in a set.
LEMMA NumbersInduction ==
    ASSUME NEW S, 0 \in S, \A n \in Nat : n \in S => n + 1 \in S
    PROVE  Nat \subseteq S
<1> SUFFICES ASSUME Nat \ S # {} PROVE FALSE
    OBVIOUS
<1>1. PICK m \in Nat \ S : \A k \in Nat \ S : m <= k
    BY LeastNumber, Zenon
<1>2. m # 0 /\ m - 1 \in Nat
    BY <1>1
<1>3. m - 1 \in S
    BY <1>1, <1>2
<1> QED
    BY <1>1, <1>2, <1>3

\* Each live layer ranks above the one it chains onto, so no walk returns to a
\* layer; the ranks are bounded, so it ends.
RankedBy(r) ==
    \A l \in LiveLayers : layers[l].prev # None => r[layers[l].prev] < r[l]

Ranked == \E n \in Nat : \E r \in [LayerIds -> 0..n] : RankedBy(r)

LayersInv == RegistryTypeOK /\ LayerForeignKey /\ Ranked

\* CommitFreeze is the only method that chains a layer, and it chains a new one.
LEMMA RankedInductive == LayersInv /\ [RegistryNext]_regVars => Ranked'
<1> SUFFICES ASSUME LayersInv, [RegistryNext]_regVars PROVE Ranked'
    OBVIOUS
<1> USE DEF LayersInv
<1>1. ASSUME NEW id \in RowIds, NEW kid \in RowIds, NEW l \in LayerIds, NEW frozen \in Vols,
             NEW newRW \in Vols, NEW c \in Cids, CommitFreeze(id, kid, l, frozen, newRW, c)
      PROVE  Ranked'
    <2>0. PICK b : b = branches[id].base
        OBVIOUS
    <2>1. /\ layers[l].st = "absent"
          /\ layers'[l].st = "live" /\ layers'[l].prev = b
          /\ \A k \in LayerIds \ {l} : layers'[k] = layers[k]
          /\ b # None => layers[b].st = "live"
        BY <1>1, <2>0 DEF CommitFreeze, CanCommitFreeze, RegistryTypeOK
    <2>2. b \in LayerIds \cup {None}
        BY <2>0, BaseOf
    <2>3. \A k \in LiveLayers : k # l /\ layers[k].prev \in LayerIds \cup {None} /\ layers[k].prev # l
        BY <2>1, RegistryAssumption DEF RegistryTypeOK, Layer, LayerForeignKey, LiveLayers
    <2>4. LiveLayers' = LiveLayers \cup {l}
        BY <2>1 DEF LiveLayers
    <2>5a. PICK n \in Nat : \E r \in [LayerIds -> 0..n] : RankedBy(r)
        BY DEF Ranked
    <2>5. PICK r \in [LayerIds -> 0..n] : RankedBy(r)
        BY <2>5a
    <2>5b. PICK s : s = [r EXCEPT ![l] = IF b = None THEN 0 ELSE r[b] + 1]
        BY Zenon
    <2>6. s \in [LayerIds -> 0..(n + 1)]
        BY <2>2, <2>5b
    <2>7. RankedBy(s)'
        <3> SUFFICES ASSUME NEW k \in LiveLayers', layers'[k].prev # None
                     PROVE  s[layers'[k].prev] < s[k]
            BY DEF RankedBy
        <3>1. CASE k = l
            BY <2>1, <2>2, <2>5b, <3>1
        <3>2. CASE k # l
            <4>1. k \in LiveLayers /\ layers'[k].prev = layers[k].prev
                BY <2>1, <2>4, <3>2 DEF LiveLayers
            <4>2. s[k] = r[k] /\ s[layers[k].prev] = r[layers[k].prev]
                BY <2>3, <2>5b, <3>2, <4>1 DEF LiveLayers
            <4> QED
                BY <2>5, <4>1, <4>2 DEF RankedBy
        <3> QED
            BY <3>1, <3>2
    <2>8. n + 1 \in Nat
        OBVIOUS
    <2> QED
        BY <2>6, <2>7, <2>8 DEF Ranked
<1>2. ASSUME NEW l \in LayerIds, DeleteLayer(l) PROVE Ranked'
    <2>1a. PICK n \in Nat : \E r \in [LayerIds -> 0..n] : RankedBy(r)
        BY DEF Ranked
    <2>1. PICK r \in [LayerIds -> 0..n] : RankedBy(r)
        BY <2>1a
    <2>2. \A k \in LiveLayers' : k \in LiveLayers /\ layers'[k].prev = layers[k].prev
        <3>1. \A k \in LayerIds : layers'[k].prev = layers[k].prev /\ (k # l => layers'[k] = layers[k])
            BY <1>2 DEF DeleteLayer, RegistryTypeOK, Layer
        <3>2. layers'[l].st = "gone"
            BY <1>2 DEF DeleteLayer, RegistryTypeOK, Layer
        <3> QED
            BY <3>1, <3>2 DEF LiveLayers
    <2>3. RankedBy(r)'
        BY <2>1, <2>2 DEF RankedBy
    <2> QED
        BY <2>3 DEF Ranked
<1>3. CASE UNCHANGED layers
    BY <1>3 DEF Ranked, RankedBy, LiveLayers
<1> QED
    BY <1>1, <1>2, <1>3, ZenonT(60)
    DEF RegistryNext, BranchMethod, regVars, CreateBranch, TransitionBranch, MarkBranchReady,
        SetBranchContainer, TouchBranch, NoteBranch, SetBranchPendingVolume, UpdateBranchEndpoint,
        UpdateBranchEndpointCtx, FailReadyBranch, FailStuckBranch, Age, Expire

\* The layer table is a forest in every reachable state.
LEMMA LayersStart == RegistryInit => LayersInv
<1> SUFFICES ASSUME RegistryInit PROVE LayersInv
    OBVIOUS
<1>1. RegistryTypeOK
    BY DEF RegistryInit, RegistryTypeOK, NoRow, NoLayer, Row, Layer, States
<1>2. LiveLayers = {}
    BY DEF RegistryInit, LiveLayers, NoLayer
<1>3. [l \in LayerIds |-> 0] \in [LayerIds -> 0..0] /\ 0 \in Nat
    OBVIOUS
<1> QED
    BY <1>1, <1>2, <1>3, Zenon DEF LayersInv, LayerForeignKey, Ranked, RankedBy

\* Types, foreign keys and layer numbers, in every state of the registry.
LEMMA LayersInvariant == RegistrySpec => []LayersInv
<1>1. LayersInv /\ [RegistryNext]_regVars => LayersInv'
    BY TypeInductive, ForeignKeyInductive, RankedInductive DEF LayersInv
<1> QED
    BY <1>1, LayersStart, PTL DEF RegistrySpec

Heads == LayerIds \cup {None}

\* One round of LayerChain's loop for every layer at once.
Walk(f) == [k \in Heads |->
    IF k = None THEN << >> ELSE IF layers[k].st # "live" THEN <<k>> ELSE <<k>> \o f[layers[k].prev]]

\* A round gives sequences of layers again.
LEMMA WalkTyped ==
    ASSUME RegistryTypeOK, NEW f \in [Heads -> Seq(LayerIds)]
    PROVE  Walk(f) \in [Heads -> Seq(LayerIds)]
<1>1. ASSUME NEW k \in Heads PROVE Walk(f)[k] \in Seq(LayerIds)
    <2>1. CASE k = None
        BY <2>1 DEF Walk
    <2>2. CASE k # None
        <3>1. k \in LayerIds /\ <<k>> \in Seq(LayerIds) /\ layers[k].prev \in Heads
            BY <2>2 DEF Heads, RegistryTypeOK, Layer
        <3>2. <<k>> \o f[layers[k].prev] \in Seq(LayerIds)
            BY <3>1
        <3> QED
            BY <2>2, <3>1, <3>2 DEF Walk
    <2> QED
        BY <2>1, <2>2
<1> QED
    BY <1>1 DEF Walk

\* The walks that end: a solution of the loop's equation exists, and there is only
\* one.
LEMMA WalkSolved ==
    ASSUME RegistryTypeOK, Ranked
    PROVE  \E f \in [Heads -> Seq(LayerIds)] :
               f = Walk(f) /\ \A g : g = Walk(g) => g = f
<1>1a. PICK n \in Nat : \E r \in [LayerIds -> 0..n] : RankedBy(r)
    BY DEF Ranked
<1>1. PICK r \in [LayerIds -> 0..n] : RankedBy(r)
    BY <1>1a
<1> DEFINE D(m) == {k \in Heads : k = None \/ r[k] < m}
           S == {m \in Nat : \E f \in [Heads -> Seq(LayerIds)] : \A k \in D(m) : f[k] = Walk(f)[k]}
<1>2. None \notin LayerIds
    BY RegistryAssumption
<1>3. \A m \in Nat : \A k \in D(m + 1) :
          k # None /\ layers[k].st = "live" => layers[k].prev \in D(m)
    <2> SUFFICES ASSUME NEW m \in Nat, NEW k \in D(m + 1), k # None, layers[k].st = "live"
                 PROVE  layers[k].prev \in D(m)
        OBVIOUS
    <2>1. k \in LayerIds /\ k \in LiveLayers /\ r[k] < m + 1 /\ layers[k].prev \in Heads
        BY DEF Heads, LiveLayers, RegistryTypeOK, Layer
    <2>2. CASE layers[k].prev = None
        BY <2>1, <2>2
    <2>3. CASE layers[k].prev # None
        <3>1. layers[k].prev \in LayerIds /\ r[layers[k].prev] < r[k]
            BY <1>1, <2>1, <2>3 DEF Heads, RankedBy
        <3>2. r[layers[k].prev] < m
            BY <2>1, <3>1
        <3> QED
            BY <2>1, <3>2
    <2> QED
        BY <2>2, <2>3
<1>4. 0 \in S
    <2> DEFINE f == [k \in Heads |-> << >>]
    <2>1. f \in [Heads -> Seq(LayerIds)]
        OBVIOUS
    <2>2. \A k \in D(0) : k = None
        BY DEF Heads
    <2>3. \A k \in D(0) : f[k] = Walk(f)[k]
        BY <2>2 DEF Walk
    <2> QED
        BY <2>1, <2>3, Zenon
<1>5. ASSUME NEW m \in Nat, m \in S PROVE m + 1 \in S
    <2>1. PICK f \in [Heads -> Seq(LayerIds)] : \A k \in D(m) : f[k] = Walk(f)[k]
        BY <1>5
    <2>2. Walk(f) \in [Heads -> Seq(LayerIds)]
        BY WalkTyped
    <2>3. ASSUME NEW k \in D(m + 1) PROVE Walk(f)[k] = Walk(Walk(f))[k]
        <3>1. CASE k = None \/ layers[k].st # "live"
            BY <3>1 DEF Walk
        <3>2. CASE k # None /\ layers[k].st = "live"
            <4>1. layers[k].prev \in D(m)
                BY <1>3, <3>2
            <4>2. Walk(f)[layers[k].prev] = f[layers[k].prev]
                BY <2>1, <4>1
            <4>3. k \in Heads
                OBVIOUS
            <4>4. \A g : Walk(g)[k] = <<k>> \o g[layers[k].prev]
                BY <3>2, <4>3 DEF Walk
            <4> QED
                BY <4>2, <4>4, Zenon
        <3> QED
            BY <3>1, <3>2
    <2> QED
        BY <2>2, <2>3
<1>6. n + 1 \in S
    <2> HIDE DEF S
    <2>1. Nat \subseteq S
        BY <1>4, <1>5, NumbersInduction
    <2> QED
        BY <2>1
<1>7. D(n + 1) = Heads
    BY DEF Heads
<1>8. PICK f \in [Heads -> Seq(LayerIds)] : \A k \in Heads : f[k] = Walk(f)[k]
    BY <1>6, <1>7, Zenon
<1>9. f = Walk(f)
    BY <1>8 DEF Walk
<1>10. ASSUME NEW g, g = Walk(g) PROVE g = f
    <2> DEFINE E == {m \in Nat : \A k \in D(m) : g[k] = f[k]}
    <2>1. \A k \in Heads : g[k] = Walk(g)[k] /\ f[k] = Walk(f)[k]
        BY <1>9, <1>10
    <2>2. 0 \in E
        <3>1. \A k \in D(0) : k = None
            BY DEF Heads
        <3>2. None \in Heads /\ \A h : Walk(h)[None] = << >>
            BY DEF Heads, Walk
        <3> QED
            BY <2>1, <3>1, <3>2
    <2>3. ASSUME NEW m \in Nat, m \in E PROVE m + 1 \in E
        <3> SUFFICES ASSUME NEW k \in D(m + 1) PROVE g[k] = f[k]
            OBVIOUS
        <3>1. k \in Heads
            OBVIOUS
        <3>2. CASE k = None \/ layers[k].st # "live"
            <4>1. Walk(g)[k] = Walk(f)[k]
                BY <3>1, <3>2 DEF Walk
            <4> QED
                BY <2>1, <3>1, <4>1
        <3>3. CASE k # None /\ layers[k].st = "live"
            <4>1. g[layers[k].prev] = f[layers[k].prev]
                BY <1>3, <2>3, <3>3, Zenon
            <4>2. /\ Walk(g)[k] = <<k>> \o g[layers[k].prev]
                  /\ Walk(f)[k] = <<k>> \o f[layers[k].prev]
                BY <3>1, <3>3, Zenon DEF Walk
            <4> QED
                BY <2>1, <3>1, <4>1, <4>2, Zenon
        <3> QED
            BY <3>2, <3>3
    <2>4. n + 1 \in E
        <3> HIDE DEF E
        <3>1. Nat \subseteq E
            BY <2>2, <2>3, NumbersInduction
        <3> QED
            BY <3>1
    <2>5. \A k \in Heads : g[k] = f[k]
        BY <1>7, <2>4
    <2>6. g = [k \in Heads |-> g[k]]
        BY <1>10 DEF Walk
    <2> QED
        BY <2>5, <2>6
<1> QED
    BY <1>9, <1>10

\* LayerChain's loop ends, with layers, whatever layer it starts from.
LEMMA ChainFromUnfolds ==
    ASSUME RegistryTypeOK, Ranked
    PROVE  /\ ChainFrom(None) = << >>
           /\ \A l \in LayerIds : ChainFrom(l) =
                  IF layers[l].st # "live" THEN <<l>> ELSE <<l>> \o ChainFrom(layers[l].prev)
           /\ \A l \in Heads : ChainFrom(l) \in Seq(LayerIds)
<1> DEFINE C == CHOOSE g : g = Walk(g)
<1>1. PICK f \in [Heads -> Seq(LayerIds)] : f = Walk(f) /\ \A g : g = Walk(g) => g = f
    BY WalkSolved
<1>2. C = Walk(C)
    BY <1>1, Zenon
<1>3. C = f
    BY <1>1, <1>2
<1>4. \A l : ChainFrom(l) = C[l]
    BY DEF ChainFrom, Walk, Heads
<1> HIDE DEF C
<1>5. \A l \in Heads : ChainFrom(l) \in Seq(LayerIds)
    BY <1>3, <1>4
<1>6. \A l \in Heads : ChainFrom(l) = Walk(C)[l]
    BY <1>2, <1>4
<1>7. Walk(C)[None] = << >>
    BY DEF Walk, Heads
<1>8. \A l \in LayerIds : Walk(C)[l] =
          IF layers[l].st # "live" THEN <<l>> ELSE <<l>> \o C[layers[l].prev]
    BY RegistryAssumption DEF Walk, Heads
<1>9. \A l \in LayerIds : l \in Heads /\ None \in Heads
    BY DEF Heads
<1>10. ChainFrom(None) = << >>
    BY <1>6, <1>7 DEF Heads
<1>11. ASSUME NEW l \in LayerIds
       PROVE  ChainFrom(l) =
                 IF layers[l].st # "live" THEN <<l>> ELSE <<l>> \o ChainFrom(layers[l].prev)
    BY <1>4, <1>6, <1>8, <1>9, Zenon
<1> QED
    BY <1>5, <1>10, <1>11

\* The chain from a layer begins with it.
LEMMA ChainHead ==
    ASSUME LayersInv, NEW l \in LayerIds
    PROVE  Len(ChainFrom(l)) \in Nat \ {0} /\ ChainFrom(l)[1] = l
<1>1. /\ ChainFrom(l) = IF layers[l].st # "live" THEN <<l>> ELSE <<l>> \o ChainFrom(layers[l].prev)
      /\ layers[l].prev \in Heads /\ \A k \in Heads : ChainFrom(k) \in Seq(LayerIds)
    BY ChainFromUnfolds, Zenon DEF LayersInv, RegistryTypeOK, Layer, Heads
<1>2. PICK s \in Seq(LayerIds) : s = ChainFrom(layers[l].prev)
    BY <1>1
<1>3. /\ Len(<<l>> \o s) \in Nat \ {0} /\ (<<l>> \o s)[1] = l
      /\ Len(<<l>>) \in Nat \ {0} /\ <<l>>[1] = l
    OBVIOUS
<1> QED
    BY <1>1, <1>2, <1>3

\* The chain from a live layer is live to its end.
LEMMA ChainWhole ==
    ASSUME LayersInv, NEW l \in LiveLayers
    PROVE  \A i \in 1..Len(ChainFrom(l)) : ChainFrom(l)[i] \in LiveLayers
<1>1a. PICK n \in Nat : \E r \in [LayerIds -> 0..n] : RankedBy(r)
    BY DEF LayersInv, Ranked
<1>1. PICK r \in [LayerIds -> 0..n] : RankedBy(r)
    BY <1>1a
<1> DEFINE Whole(k) == \A i \in 1..Len(ChainFrom(k)) : ChainFrom(k)[i] \in LiveLayers
           S == {m \in Nat : \A k \in LiveLayers : r[k] < m => Whole(k)}
<1>2. 0 \in S
    BY DEF LiveLayers
<1>3. ASSUME NEW m \in Nat, m \in S PROVE m + 1 \in S
    <2> SUFFICES ASSUME NEW k \in LiveLayers, r[k] < m + 1 PROVE Whole(k)
        OBVIOUS
    <2>1. k \in LayerIds /\ layers[k].st = "live" /\ layers[k].prev \in Heads
        BY DEF LiveLayers, LayersInv, RegistryTypeOK, Layer, Heads
    <2>2. PICK b \in Heads : b = layers[k].prev
        BY <2>1
    <2>3. PICK s \in Seq(LayerIds) : s = ChainFrom(b)
        BY ChainFromUnfolds DEF LayersInv
    <2>4. ChainFrom(k) = <<k>> \o s
        BY <2>1, <2>2, <2>3, ChainFromUnfolds, Zenon DEF LayersInv
    <2>5. \A i \in 1..Len(s) : s[i] \in LiveLayers
        <3>1. CASE b = None
            BY <2>3, <3>1, ChainFromUnfolds DEF LayersInv
        <3>2. CASE b # None
            <4>1. b \in LiveLayers /\ b \in LayerIds
                BY <2>1, <2>2, <3>2 DEF LayersInv, LayerForeignKey, Heads, LiveLayers
            <4>2. r[b] < r[k]
                BY <1>1, <2>2, <3>2 DEF RankedBy
            <4>3. r[b] < m
                BY <2>1, <4>1, <4>2
            <4>4. Whole(b)
                BY <1>3, <4>1, <4>3
            <4> QED
                BY <2>3, <4>4
        <3> QED
            BY <3>1, <3>2
    <2>6. \A i \in 1..Len(<<k>> \o s) : (<<k>> \o s)[i] = k \/ \E j \in 1..Len(s) : (<<k>> \o s)[i] = s[j]
        <3> SUFFICES ASSUME NEW i \in 1..Len(<<k>> \o s), i # 1
                     PROVE  \E j \in 1..Len(s) : (<<k>> \o s)[i] = s[j]
            OBVIOUS
        <3>1. Len(<<k>> \o s) = 1 + Len(s) /\ Len(s) \in Nat
            OBVIOUS
        <3>2. i - 1 \in 1..Len(s) /\ (<<k>> \o s)[i] = s[i - 1]
            BY <3>1
        <3> QED
            BY <3>2, Zenon
    <2> QED
        BY <2>4, <2>5, <2>6
<1>4. n + 1 \in S
    <2> HIDE DEF S
    <2>1. Nat \subseteq S
        BY <1>2, <1>3, NumbersInduction
    <2> QED
        BY <2>1
<1>5. l \in LayerIds /\ r[l] < n + 1
    BY DEF LiveLayers
<1> QED
    BY <1>4, <1>5

\* So a branch whose base is live, or that has none, has a whole chain.
LEMMA BaseLive ==
    ASSUME LayersInv, NEW id \in RowIds, branches[id].base \in LiveLayers \cup {None}
    PROVE  ChainOK(id)
<1>1. CASE branches[id].base = None
    BY <1>1, ChainFromUnfolds DEF ChainOK, ChainSet, LayerChain, LayersInv
<1>2. CASE branches[id].base \in LiveLayers
    BY <1>2, ChainWhole DEF ChainOK, ChainSet, LayerChain
<1> QED
    BY <1>1, <1>2

\* And a layer that is the base of a live branch is referenced by it.
LEMMA BaseReferenced ==
    ASSUME LayersInv, NEW l \in LayerIds, ReferencingLayer(l) = {}, NEW id \in LiveRows
    PROVE  branches[id].base # l
<1> SUFFICES ASSUME branches[id].base = l PROVE FALSE
    OBVIOUS
<1>1. Len(ChainFrom(l)) \in Nat \ {0} /\ ChainFrom(l)[1] = l
    BY ChainHead
<1>2. l \in ChainSet(id)
    BY <1>1 DEF ChainSet, LayerChain
<1> QED
    BY <1>2 DEF ReferencingLayer
-----------------------------------------------------------------------------
(* Where the base of a live branch comes from. *)

\* A row keeps its base, is inserted without one, or is given the layer that
\* CommitFreeze inserts in the same transaction.
BasedOn(i) ==
    \/ branches'[i].base = branches[i].base /\ (~Exists(i) => ~Exists(i)')
    \/ branches'[i].base = None
    \/ LET l == branches'[i].base IN l \in LayerIds /\ layers[l].st = "absent" /\ l \in LiveLayers'

\* A layer's row is never forgotten, and its id never taken again.
LayersStay == \A l \in LayerIds : layers[l].st # "absent" => layers'[l].st # "absent"

\* A method of the branch table keeps a row's base, or sets it to a new layer.
LEMMA MethodBases ==
    ASSUME RegistryTypeOK, NEW id \in RowIds, BranchMethod(id), NEW i \in RowIds
    PROVE  BasedOn(i) /\ LayersStay
<1> DEFINE Same == branches'[i].base = branches[i].base /\ (~Exists(i) => ~Exists(i)') /\ UNCHANGED layers
<1>0. Same => BasedOn(i) /\ LayersStay
    BY DEF BasedOn, LayersStay
<1>1. ASSUME NEW n \in Names, NEW rw \in Vols, NEW parent \in Names \cup {None},
             NEW ttl \in {"never", "later"}, CreateBranch(id, n, rw, parent, ttl)
      PROVE  BasedOn(i) /\ LayersStay
    <2>1. CASE i = id
        <3>1. branches'[i].base = None /\ UNCHANGED layers
            BY <1>1, <2>1, Zenon DEF CreateBranch, NoRow, RegistryTypeOK
        <3> QED
            BY <3>1 DEF BasedOn, LayersStay
    <2>2. CASE i # id
        <3>1. branches'[i] = branches[i] /\ UNCHANGED layers
            BY <1>1, <2>2 DEF CreateBranch, RegistryTypeOK
        <3> QED
            BY <1>0, <3>1 DEF Exists
    <2> QED
        BY <2>1, <2>2
<1>2. ASSUME NEW kid \in RowIds, NEW l \in LayerIds, NEW frozen \in Vols,
             NEW newRW \in Vols, NEW c \in Cids, CommitFreeze(id, kid, l, frozen, newRW, c)
      PROVE  BasedOn(i) /\ LayersStay
    <2>1. branches[id] \in Row /\ branches[kid] \in Row /\ id # kid
        BY <1>2 DEF CommitFreeze, CanCommitFreeze, RegistryTypeOK
    <2>2. branches'[id] = [branches[id] EXCEPT !.rw = newRW, !.base = l, !.cid = c,
                              !.state = "ready", !.pending = None, !.stale = FALSE]
        BY <1>2, <2>1 DEF CommitFreeze, RegistryTypeOK
    <2>3. branches'[kid] = [branches[kid] EXCEPT !.base = l, !.stale = FALSE]
        BY <1>2, <2>1 DEF CommitFreeze, RegistryTypeOK
    <2>4. branches'[id].base = l /\ branches'[kid].base = l
        BY <2>1, <2>2, <2>3 DEF Row
    <2>5. i \notin {id, kid} => branches'[i] = branches[i]
        BY <1>2, <2>1 DEF CommitFreeze, RegistryTypeOK
    <2>6. /\ layers[l].st = "absent" /\ layers'[l].st = "live"
          /\ \A k \in LayerIds \ {l} : layers'[k] = layers[k]
        BY <1>2 DEF CommitFreeze, RegistryTypeOK
    <2> QED
        BY <2>4, <2>5, <2>6 DEF BasedOn, LayersStay, LiveLayers, Exists
<1>3. ASSUME NEW to \in States, TransitionBranch(id, to) PROVE Same
    BY <1>3, LegalBranchFacts DEF TransitionBranch, Exists, RegistryTypeOK, Row
<1>4. ASSUME NEW c \in Cids \cup {None}, MarkBranchReady(id, c) PROVE Same
    BY <1>4, LegalBranchFacts DEF MarkBranchReady, Exists, RegistryTypeOK, Row
<1>5. ASSUME NEW c \in Cids \cup {None}, SetBranchContainer(id, c) PROVE Same
    BY <1>5 DEF SetBranchContainer, Exists, RegistryTypeOK, Row
<1>6. /\ TouchBranch(id) => Same
      /\ NoteBranch(id) => Same
    <2>1. TouchBranch(id) => Same
        BY DEF TouchBranch, Exists, RegistryTypeOK, Row
    <2>2. NoteBranch(id) => Same
        BY DEF NoteBranch, Exists, RegistryTypeOK, Row
    <2> HIDE DEF Same
    <2> QED
        BY <2>1, <2>2
<1>7. ASSUME NEW v \in Vols \cup {None}, SetBranchPendingVolume(id, v) PROVE Same
    BY <1>7 DEF SetBranchPendingVolume, Exists, RegistryTypeOK, Row
<1>8. ASSUME NEW c \in Cids \cup {None}, NEW d \in Cids,
             UpdateBranchEndpoint(id, c, d) \/ UpdateBranchEndpointCtx(id, c, d)
      PROVE  Same
    <2>1. UpdateBranchEndpoint(id, c, d) => Same
        BY DEF UpdateBranchEndpoint, Exists, RegistryTypeOK, Row
    <2>2. UpdateBranchEndpointCtx(id, c, d) => Same
        BY DEF UpdateBranchEndpointCtx, Exists, RegistryTypeOK, Row
    <2> HIDE DEF Same
    <2> QED
        BY <1>8, <2>1, <2>2
<1>9. ASSUME NEW c \in Cids \cup {None}, FailReadyBranch(id, c) PROVE Same
    BY <1>9 DEF FailReadyBranch, Exists, RegistryTypeOK, Row
<1>10. ASSUME FailStuckBranch(id) PROVE Same
    BY <1>10 DEF FailStuckBranch, Stuck, Exists, RegistryTypeOK, Row
<1>11. ASSUME Age(id) \/ Expire(id) PROVE Same
    BY <1>11 DEF Age, Expire, Exists, RegistryTypeOK, Row
<1> HIDE DEF Same
<1> QED
    BY <1>0, <1>1, <1>2, <1>3, <1>4, <1>5, <1>6, <1>7, <1>8, <1>9, <1>10, <1>11, Zenon
       DEF BranchMethod

\* So a live row after a step of the registry was live on the same base, has
\* none, or is on a layer that is new.
LEMMA BasesStep ==
    ASSUME RegistryTypeOK, [RegistryNext]_regVars
    PROVE  /\ LayersStay
           /\ \A i \in LiveRows' :
                \/ i \in LiveRows /\ branches'[i].base = branches[i].base
                \/ branches'[i].base = None
                \/ LET l == branches'[i].base
                   IN l \in LayerIds /\ layers[l].st = "absent" /\ l \in LiveLayers'
<1>1. ASSUME NEW i \in RowIds PROVE BasedOn(i) /\ LayersStay
    <2>1. ASSUME NEW l \in LayerIds, DeleteLayer(l) PROVE BasedOn(i) /\ LayersStay
        BY <2>1 DEF DeleteLayer, BasedOn, LayersStay, Exists, RegistryTypeOK, Layer
    <2>2. CASE UNCHANGED regVars
        BY <2>2 DEF regVars, BasedOn, LayersStay, Exists
    <2> QED
        BY <2>1, <2>2, MethodBases DEF RegistryNext
<1>2. ASSUME RowIds = {} PROVE LayersStay
    BY <1>2 DEF RegistryNext, DeleteLayer, LayersStay, RegistryTypeOK, Layer, regVars
<1>3. ASSUME NEW i \in LiveRows' PROVE i \in RowIds /\ branches[i].state # "destroyed"
    BY <1>3, TombstoneKept DEF LiveRows, Live
<1> QED
    BY <1>1, <1>2, <1>3 DEF BasedOn, LiveRows, Live, Exists
=============================================================================
