--------------------------- MODULE Imports_proofs ---------------------------
(***************************************************************************)
(* Theorems about Imports, for any sessions, statements, ledger and number  *)
(* of editors: however uploads, decisions, commits and cancellations        *)
(* interleave, a row is carried out once, a transaction is cleared by one   *)
(* row, and the result of a session counts what it did.                     *)
(***************************************************************************)
EXTENDS Imports, FiniteSetTheorems, TLAPS

-----------------------------------------------------------------------------
(* The inductive invariant *)

\* What a row explains is cleared for as long as it is stored, so that no commit
\* links it again; a transaction that was deleted stays deleted.
StaysCleared == \A v \in evidence : tx[v.tx] # None => tx[v.tx].cleared

\* Only completed sessions have carried out rows, each of them once.
Carried ==
  \A v \in evidence :
    /\ session[v.session] # None /\ session[v.session].status = "completed"
    /\ \A w \in evidence : v.session = w.session /\ v.row = w.row => v = w

\* Whoever works on a draft has found one.
Found == \A e \in Editors : draft[e] # None => session[draft[e].session] # None

ImportInv == TypeOK /\ Found /\ StaysCleared /\ ClearedOnce /\ Carried

-----------------------------------------------------------------------------
(* Types of the rows *)

LEMMA RowsFinite ==
  ASSUME NEW s, NEW action
  PROVE  IsFiniteSet(RowsTo(s, action)) /\ Cardinality(RowsTo(s, action)) \in Nat
BY ImportAssumption, FS_Subset, FS_CardinalityType DEF RowsTo

LEMMA ProposalsTyped ==
  ASSUME NEW statement \in Statements, NEW r \in Rows
  PROVE  Proposals(statement, r) \subseteq Row
<1>1. statement[r] \in Lines \cup {Invalid}
  BY ImportAssumption
<1> SUFFICES ASSUME NEW row \in Proposals(statement, r) PROVE row \in Row
  OBVIOUS
<1>2. \E state \in {"invalid", "new", "duplicate", "possible_match"}, action \in Actions,
         match \in Transactions \cup {None} :
        row = [line |-> statement[r], state |-> state, action |-> action, match |-> match]
  BY DEF Proposals, Stated, Actions
<1> QED
  BY <1>1, <1>2 DEF Row

LEMMA ParsedTyped ==
  ASSUME NEW statement \in Statements, NEW rows \in Parsed(statement)
  PROVE  rows \in [Rows -> Row]
BY ProposalsTyped DEF Parsed

LEMMA PreservedTyped ==
  ASSUME NEW prior \in Row, NEW next \in Row PROVE Preserved(prior, next) \in Row
BY DEF Preserved, Row

LEMMA ResolvedTyped ==
  ASSUME NEW row \in Row, NEW action \in Actions \ {"undecided"},
         NEW t \in Transactions \cup {None}
  PROVE  Resolved(row, action, t) \in Row
BY DEF Resolved, Row, Actions

-----------------------------------------------------------------------------
(* The steps keep the invariant *)

\* Steps on sessions and drafts alone: a completed session stays completed, and
\* none disappears.
LEMMA SessionChange ==
  ASSUME ImportInv, TypeOK', Found', UNCHANGED <<tx, evidence>>,
         \A s \in Sessions : session[s] # None /\ session[s].status = "completed" =>
                               session'[s] # None /\ session'[s].status = "completed"
  PROVE  ImportInv'
<1>1. StaysCleared' /\ ClearedOnce'
  BY DEF ImportInv, StaysCleared, ClearedOnce
<1>2. Carried'
  BY DEF ImportInv, Carried, TypeOK
<1> QED
  BY <1>1, <1>2 DEF ImportInv

LEMMA CreateStep ==
  ASSUME ImportInv, NEW s \in Sessions, CreateImportSession(s) PROVE ImportInv'
<1>1. PICK statement \in Statements : \E rows \in Parsed(statement) :
        session' = [session EXCEPT ![s] = [status |-> "draft", rows |-> rows, result |-> None]]
  BY DEF CreateImportSession
<1>2. PICK rows \in Parsed(statement) :
        session' = [session EXCEPT ![s] = [status |-> "draft", rows |-> rows, result |-> None]]
  BY <1>1
<1>3. [status |-> "draft", rows |-> rows, result |-> None] \in SessionRecords
  BY ParsedTyped DEF SessionRecords
<1>4. session[s] = None /\ UNCHANGED <<tx, evidence, draft>>
  BY DEF CreateImportSession
<1>5. TypeOK'
  BY <1>2, <1>3, <1>4 DEF ImportInv, TypeOK
<1>6. \A q \in Sessions : session[q] # None => session'[q] = session[q]
  BY <1>2, <1>4 DEF ImportInv, TypeOK
<1>7. Found'
  BY <1>4, <1>6 DEF ImportInv, TypeOK, Found, DraftRecords
<1> QED
  BY <1>4, <1>5, <1>6, <1>7, SessionChange

LEMMA ReadStep ==
  ASSUME ImportInv, NEW e \in Editors, NEW s \in Sessions,
         \/ ReadUpdate(e, s)
         \/ \E r \in Rows, action \in Actions \ {"undecided"}, t \in Transactions \cup {None} :
              ReadResolve(e, s, r, action, t)
  PROVE  ImportInv'
<1>1. session[s] # None /\ UNCHANGED <<session, tx, evidence>>
  BY DEF ReadUpdate, ReadResolve, IsDraft
<1>2. session[s].rows \in [Rows -> Row]
  BY <1>1 DEF ImportInv, TypeOK, SessionRecords
<1>3. \E guarded \in BOOLEAN, rows \in [Rows -> Row] :
        draft' = [draft EXCEPT ![e] = [session |-> s, guarded |-> guarded, rows |-> rows]]
  <2>1. CASE ReadUpdate(e, s)
    <3>1. PICK statement \in Statements : \E rows \in Parsed(statement) :
            draft' = [draft EXCEPT ![e] =
              [session |-> s, guarded |-> TRUE,
               rows |-> [r \in Rows |-> Preserved(session[s].rows[r], rows[r])]]]
      BY <2>1 DEF ReadUpdate
    <3>2. PICK rows \in Parsed(statement) :
            draft' = [draft EXCEPT ![e] =
              [session |-> s, guarded |-> TRUE,
               rows |-> [r \in Rows |-> Preserved(session[s].rows[r], rows[r])]]]
      BY <3>1
    <3>3. rows \in [Rows -> Row]
      BY ParsedTyped
    <3>4. [r \in Rows |-> Preserved(session[s].rows[r], rows[r])] \in [Rows -> Row]
      BY <1>2, <3>3, PreservedTyped
    <3> QED
      BY <3>2, <3>4
  <2>2. ASSUME NEW r \in Rows, NEW action \in Actions \ {"undecided"},
               NEW t \in Transactions \cup {None}, ReadResolve(e, s, r, action, t)
        PROVE  \E guarded \in BOOLEAN, rows \in [Rows -> Row] :
                 draft' = [draft EXCEPT ![e] = [session |-> s, guarded |-> guarded,
                                                rows |-> rows]]
    <3>1. draft' = [draft EXCEPT ![e] =
            [session |-> s, guarded |-> FALSE,
             rows |-> [session[s].rows EXCEPT ![r] = Resolved(@, action, t)]]]
      BY <2>2 DEF ReadResolve
    <3>2. [session[s].rows EXCEPT ![r] = Resolved(@, action, t)] \in [Rows -> Row]
      BY <1>2, ResolvedTyped
    <3> QED
      BY <3>1, <3>2
  <2> QED
    BY <2>1, <2>2
<1>4. PICK d \in DraftRecords : d.session = s /\ draft' = [draft EXCEPT ![e] = d]
  BY <1>3 DEF DraftRecords
<1>5. TypeOK' /\ Found'
  BY <1>1, <1>4 DEF ImportInv, TypeOK, Found
<1> QED
  BY <1>1, <1>5, SessionChange

LEMMA WriteStep == ASSUME ImportInv, NEW e \in Editors, WriteRows(e) PROVE ImportInv'
<1> DEFINE d == draft[e]
<1>1. /\ d \in DraftRecords /\ session[d.session] # None
      /\ \/ session' = session
         \/ session' = [session EXCEPT ![d.session].rows = d.rows]
      /\ draft' = [draft EXCEPT ![e] = None] /\ UNCHANGED <<tx, evidence>>
  BY DEF WriteRows, ImportInv, TypeOK, Found
<1>2. d.session \in Sessions /\ d.rows \in [Rows -> Row]
  BY <1>1 DEF DraftRecords
<1> HIDE DEF d
<1>3. session' = session \/ session' = [session EXCEPT ![d.session] = [@ EXCEPT !.rows = d.rows]]
  BY <1>1
<1>4. /\ [session[d.session] EXCEPT !.rows = d.rows] \in SessionRecords
      /\ [session[d.session] EXCEPT !.rows = d.rows].status = session[d.session].status
  BY <1>1, <1>2 DEF ImportInv, TypeOK, SessionRecords
<1>5. TypeOK'
  BY <1>1, <1>2, <1>3, <1>4 DEF ImportInv, TypeOK
<1>6. \A s \in Sessions : session[s] # None =>
        session'[s] # None /\ session'[s].status = session[s].status
  BY ZenonT(30), <1>2, <1>3, <1>4, ImportAssumption DEF ImportInv, TypeOK
<1>7. Found'
  BY <1>1, <1>6, ImportAssumption DEF ImportInv, TypeOK, Found, DraftRecords
<1> QED
  BY <1>1, <1>5, <1>6, <1>7, SessionChange

LEMMA CancelStep ==
  ASSUME ImportInv, NEW s \in Sessions, CancelImportSession(s) PROVE ImportInv'
<1>1. /\ session[s] # None /\ session[s].status = "draft" /\ UNCHANGED <<tx, evidence, draft>>
      /\ session' = [session EXCEPT ![s] = [@ EXCEPT !.status = "cancelled"]]
  BY DEF CancelImportSession, Cancellable, IsDraft
<1>2. [session[s] EXCEPT !.status = "cancelled"] \in SessionRecords
  BY <1>1 DEF ImportInv, TypeOK, SessionRecords
<1>3. TypeOK'
  BY <1>1, <1>2 DEF ImportInv, TypeOK
<1>4. \A q \in Sessions : session[q] # None =>
        session'[q] # None /\ (q # s => session'[q] = session[q])
  BY <1>1, <1>2, ImportAssumption DEF ImportInv, TypeOK
<1>5. Found'
  BY <1>1, <1>4 DEF ImportInv, TypeOK, Found, DraftRecords
<1> QED
  BY <1>1, <1>3, <1>4, <1>5, SessionChange

\* Edits and deletions never take the mark of a stored transaction.
LEMMA LedgerStep ==
  ASSUME ImportInv, NEW t \in Mutable, EditTransaction(t) \/ DeleteTransaction(t)
  PROVE  ImportInv'
<1>1. UNCHANGED <<session, evidence, draft>> /\ t \in Transactions /\ tx[t] # None
  BY ImportAssumption DEF EditTransaction, DeleteTransaction
<1>2. \E record \in TransactionRecords \cup {None} :
        /\ tx' = [tx EXCEPT ![t] = record]
        /\ record # None => record.cleared = tx[t].cleared
  <2>1. CASE DeleteTransaction(t)
    BY <2>1 DEF DeleteTransaction
  <2>2. ASSUME NEW line \in Lines, NEW exact \in BOOLEAN,
               tx' = [tx EXCEPT ![t].line = line, ![t].exact = exact]
        PROVE  \E record \in TransactionRecords \cup {None} :
                 /\ tx' = [tx EXCEPT ![t] = record]
                 /\ record # None => record.cleared = tx[t].cleared
    <3> DEFINE record == [tx[t] EXCEPT !.line = line, !.exact = exact]
    <3>1. record \in TransactionRecords /\ record.cleared = tx[t].cleared
      BY <1>1 DEF ImportInv, TypeOK, TransactionRecords
    <3>2. tx' = [tx EXCEPT ![t] = record]
      BY <1>1, <2>2 DEF ImportInv, TypeOK
    <3> HIDE DEF record
    <3> QED
      BY <3>1, <3>2
  <2> QED
    BY <2>1, <2>2 DEF EditTransaction
<1>3. TypeOK' /\ Found'
  BY <1>1, <1>2 DEF ImportInv, TypeOK, Found
<1>4. StaysCleared' /\ ClearedOnce' /\ Carried'
  BY <1>1, <1>2 DEF ImportInv, TypeOK, StaysCleared, ClearedOnce, Carried
<1> QED
  BY <1>3, <1>4 DEF ImportInv

-----------------------------------------------------------------------------
(* A commit *)

\* What a commit of s finds: links to stored transactions that are not cleared, one
\* row each, and identifiers for its creations that nothing has used.
LEMMA CommitFinds ==
  ASSUME ImportInv, NEW s \in Sessions, Linkable(s), Creatable(s), IsDraft(s),
         NEW id \in Injection(RowsTo(s, "create"), Unused)
  PROVE  /\ \A r \in RowsTo(s, "link") :
              /\ r \in Rows /\ r \notin RowsTo(s, "create")
              /\ Target(s, r) \in Transactions /\ tx[Target(s, r)] # None
              /\ ~tx[Target(s, r)].cleared
         /\ \A q, r \in RowsTo(s, "link") : Target(s, q) = Target(s, r) => q = r
         /\ \A r \in RowsTo(s, "create") :
              /\ r \in Rows /\ session[s].rows[r].line \in Lines
              /\ id[r] \in Transactions /\ tx[id[r]] = None
              /\ \A v \in evidence : v.tx # id[r]
         /\ \A q, r \in RowsTo(s, "create") : id[q] = id[r] => q = r
<1>1. session[s].rows \in [Rows -> Row]
  BY DEF ImportInv, TypeOK, IsDraft, SessionRecords
<1>2. \A r \in RowsTo(s, "link") :
        /\ r \in Rows /\ r \notin RowsTo(s, "create")
        /\ Target(s, r) \in Transactions /\ tx[Target(s, r)] # None
        /\ ~tx[Target(s, r)].cleared
  BY <1>1 DEF RowsTo, Target, Linkable, Row
<1>3. \A q, r \in RowsTo(s, "link") : Target(s, q) = Target(s, r) => q = r
  BY DEF Linkable
<1>4. id \in [RowsTo(s, "create") -> Unused] /\ IsInjective(id)
  BY DEF Injection
<1>5. \A r \in RowsTo(s, "create") :
        /\ r \in Rows /\ session[s].rows[r].line \in Lines
        /\ id[r] \in Transactions /\ tx[id[r]] = None
        /\ \A v \in evidence : v.tx # id[r]
  BY <1>1, <1>4 DEF RowsTo, Creatable, Row, Unused, Transactions
<1>6. \A q, r \in RowsTo(s, "create") : id[q] = id[r] => q = r
  BY <1>4 DEF IsInjective
<1> QED
  BY <1>2, <1>3, <1>5, <1>6

LEMMA CommitStep ==
  ASSUME ImportInv, NEW s \in Sessions, CommitImportSession(s) PROVE ImportInv'
<1>1. IsDraft(s) /\ Linkable(s) /\ Creatable(s) /\ draft' = draft
  BY DEF CommitImportSession, Committable
<1>2. PICK id \in Injection(RowsTo(s, "create"), Unused) :
        LET linked == {Target(s, r) : r \in RowsTo(s, "link")}
            created == {id[r] : r \in RowsTo(s, "create")}
            lineOf(t) == session[s].rows[CHOOSE r \in RowsTo(s, "create") : id[r] = t].line
        IN  /\ tx' = [t \in Transactions |->
                        IF t \in created
                        THEN [line |-> lineOf(t), exact |-> TRUE, cleared |-> TRUE]
                        ELSE IF t \in linked THEN [tx[t] EXCEPT !.cleared = TRUE] ELSE tx[t]]
            /\ evidence' = evidence \cup
                 {[session |-> s, row |-> r, tx |-> Target(s, r), kind |-> "link"] :
                    r \in RowsTo(s, "link")} \cup
                 {[session |-> s, row |-> r, tx |-> id[r], kind |-> "create"] :
                    r \in RowsTo(s, "create")}
            /\ session' = [session EXCEPT ![s].status = "completed", ![s].result = Counts(s)]
  BY DEF CommitImportSession
<1> DEFINE linked == {Target(s, r) : r \in RowsTo(s, "link")}
           created == {id[r] : r \in RowsTo(s, "create")}
           lineOf(t) == session[s].rows[CHOOSE r \in RowsTo(s, "create") : id[r] = t].line
           links == {[session |-> s, row |-> r, tx |-> Target(s, r), kind |-> "link"] :
                       r \in RowsTo(s, "link")}
           creations == {[session |-> s, row |-> r, tx |-> id[r], kind |-> "create"] :
                           r \in RowsTo(s, "create")}
           final == [session[s] EXCEPT !.status = "completed", !.result = Counts(s)]
<1>3. /\ \A r \in RowsTo(s, "link") :
           /\ r \in Rows /\ r \notin RowsTo(s, "create")
           /\ Target(s, r) \in Transactions /\ tx[Target(s, r)] # None
           /\ ~tx[Target(s, r)].cleared
      /\ \A q, r \in RowsTo(s, "link") : Target(s, q) = Target(s, r) => q = r
      /\ \A r \in RowsTo(s, "create") :
           /\ r \in Rows /\ session[s].rows[r].line \in Lines
           /\ id[r] \in Transactions /\ tx[id[r]] = None
           /\ \A v \in evidence : v.tx # id[r]
      /\ \A q, r \in RowsTo(s, "create") : id[q] = id[r] => q = r
  BY <1>1, CommitFinds
<1>4. /\ \A v \in links : /\ v.session = s /\ v.row \in RowsTo(s, "link") /\ v.kind = "link"
                          /\ v.tx = Target(s, v.row)
                          /\ v = [session |-> s, row |-> v.row, tx |-> v.tx, kind |-> "link"]
      /\ \A v \in creations : /\ v.session = s /\ v.row \in RowsTo(s, "create")
                              /\ v.tx = id[v.row] /\ v.kind = "create"
                              /\ v = [session |-> s, row |-> v.row, tx |-> v.tx, kind |-> "create"]
  OBVIOUS
<1>5. evidence' = evidence \cup links \cup creations
  BY <1>2
<1>6. session' = [session EXCEPT ![s] = final] /\ final \in SessionRecords
      /\ final.status = "completed"
  <2>1. Counts(s) \in Outcome
    BY RowsFinite DEF Counts, Outcome
  <2>2. session[s] \in SessionRecords
    BY <1>1 DEF IsDraft, ImportInv, TypeOK
  <2>3. session' = [session EXCEPT ![s].status = "completed", ![s].result = Counts(s)]
    BY <1>2
  <2> HIDE DEF links, creations, linked, created
  <2> QED
    BY <2>1, <2>2, <2>3 DEF SessionRecords
<1>7. ASSUME NEW t \in Transactions
      PROVE  /\ tx'[t] \in TransactionRecords \cup {None}
             /\ t \in created => tx'[t] # None /\ tx'[t].cleared
             /\ t \in linked => tx'[t] # None /\ tx'[t].cleared
             /\ t \notin created /\ t \notin linked => tx'[t] = tx[t]
  <2>1. CASE t \in created
    <3>1. tx'[t] = [line |-> lineOf(t), exact |-> TRUE, cleared |-> TRUE]
      BY <1>2, <2>1
    <3>2. lineOf(t) \in Lines
      BY <1>3, <2>1
    <3> HIDE DEF lineOf, links, creations, linked, created
    <3>3. tx'[t] \in TransactionRecords /\ tx'[t].cleared
      BY <3>1, <3>2 DEF TransactionRecords
    <3> QED
      BY <2>1, <3>3, ImportAssumption
  <2>2. CASE t \notin created /\ t \in linked
    <3>1. tx'[t] = [tx[t] EXCEPT !.cleared = TRUE]
      BY <1>2, <2>2
    <3>2. tx[t] \in TransactionRecords
      BY <1>3, <2>2 DEF ImportInv, TypeOK
    <3> HIDE DEF lineOf, links, creations, linked, created
    <3>3. tx'[t] \in TransactionRecords /\ tx'[t].cleared
      BY <3>1, <3>2 DEF TransactionRecords
    <3> QED
      BY <2>2, <3>3, ImportAssumption
  <2>3. CASE t \notin created /\ t \notin linked
    <3>1. tx'[t] = tx[t]
      BY <1>2, <2>3
    <3> HIDE DEF lineOf, links, creations, linked, created
    <3> QED
      BY <2>3, <3>1 DEF ImportInv, TypeOK
  <2> QED
    BY <2>1, <2>2, <2>3
<1>8. DOMAIN tx' = Transactions /\ tx' = [t \in Transactions |-> tx'[t]]
  BY <1>2
<1>9. /\ \A v \in links : v.tx \in linked
      /\ \A v \in creations : v.tx \in created
      /\ \A t \in linked : t \in Transactions /\ tx[t] # None /\ ~tx[t].cleared
      /\ \A t \in created : t \in Transactions /\ tx[t] = None /\ \A v \in evidence : v.tx # t
  BY <1>3, <1>4
<1>10. /\ \A v, w \in links : v.tx = w.tx => v.row = w.row
       /\ \A v, w \in creations : v.tx = w.tx => v.row = w.row
  BY <1>3, <1>4
<1>11. links \cup creations \subseteq [session : Sessions, row : Rows, tx : Transactions,
                                       kind : {"create", "link"}]
  BY <1>3
<1> HIDE DEF links, creations, linked, created, lineOf, final
<1>12. TypeOK'
  <2>1. tx' \in [Transactions -> TransactionRecords \cup {None}]
    BY <1>7, <1>8
  <2>2. session' \in [Sessions -> SessionRecords \cup {None}]
    BY <1>6 DEF ImportInv, TypeOK
  <2> QED
    BY <1>1, <1>5, <1>11, <2>1, <2>2 DEF ImportInv, TypeOK
<1>13. Found'
  BY <1>1, <1>6, ImportAssumption DEF ImportInv, TypeOK, Found, DraftRecords
<1>14. StaysCleared'
  <2>1. ASSUME NEW v \in evidence PROVE tx'[v.tx] # None => tx'[v.tx].cleared
    <3>1. v.tx \in Transactions /\ (tx[v.tx] # None => tx[v.tx].cleared)
      BY DEF ImportInv, TypeOK, StaysCleared
    <3> QED
      BY <1>7, <1>9, <3>1
  <2>2. ASSUME NEW v \in links \cup creations PROVE tx'[v.tx].cleared
    BY <1>7, <1>9
  <2> QED
    BY <1>5, <2>1, <2>2 DEF StaysCleared
<1>15. ClearedOnce'
  <2>1. ASSUME NEW v \in evidence PROVE v.tx \notin linked /\ v.tx \notin created
    BY <1>9 DEF ImportInv, StaysCleared
  <2>2. \A t \in linked : t \notin created
    BY <1>9
  <2>3. \A v, w \in links : v.tx = w.tx => v = w
    BY <1>4, <1>10
  <2>4. \A v, w \in creations : v.tx = w.tx => v = w
    BY <1>4, <1>10
  <2> QED
    BY <1>5, <1>9, <2>1, <2>2, <2>3, <2>4 DEF ImportInv, ClearedOnce
<1>16. Carried'
  <2>1. ASSUME NEW v \in evidence
        PROVE  /\ v.session # s /\ v.session \in Sessions
               /\ session'[v.session] = session[v.session]
    BY <1>1, <1>6 DEF ImportInv, TypeOK, Carried, IsDraft
  <2>2. session'[s] # None /\ session'[s].status = "completed"
    BY <1>6, ImportAssumption DEF ImportInv, TypeOK
  <2>3. \A v, w \in links \cup creations : v.row = w.row => v = w
    BY <1>3, <1>4
  <2>4. \A v \in links \cup creations : v.session = s
    BY <1>4
  <2> QED
    BY <1>5, <2>1, <2>2, <2>3, <2>4 DEF ImportInv, Carried
<1> QED
  BY <1>12, <1>13, <1>14, <1>15, <1>16 DEF ImportInv

-----------------------------------------------------------------------------
(* The result of a commit *)

\* As many pieces of evidence as rows, when each row has one.
LEMMA OnePerRow ==
  ASSUME NEW S \in SUBSET Rows, NEW T, \A v \in T : v.row \in S,
         \A v, w \in T : v.row = w.row => v = w, \A r \in S : \E v \in T : v.row = r
  PROVE  Cardinality(T) = Cardinality(S)
<1> DEFINE g == [r \in S |-> CHOOSE v \in T : v.row = r]
<1>1. \A r \in S : g[r] \in T /\ g[r].row = r
  OBVIOUS
<1>2. g \in [S -> T]
  BY <1>1
<1>3. \A v \in T : g[v.row] = v
  BY <1>1
<1>4. IsFiniteSet(S)
  BY ImportAssumption, FS_Subset
<1> HIDE DEF g
<1>5. g \in Bijection(S, T)
  BY <1>1, <1>2, <1>3 DEF Bijection, Injection, Surjection, IsInjective
<1> QED
  BY <1>4, <1>5, FS_Bijection DEF ExistsBijection

\* Every row that is decided is created, linked or ignored.
LEMMA EveryRowCounts ==
  ASSUME NEW s \in Sessions, session[s].rows \in [Rows -> Row], RowsTo(s, "undecided") = {}
  PROVE  Cardinality(RowsTo(s, "create")) + Cardinality(RowsTo(s, "link"))
           + Cardinality(RowsTo(s, "ignore")) = Cardinality(Rows)
<1> DEFINE C == RowsTo(s, "create")
           L == RowsTo(s, "link")
           I == RowsTo(s, "ignore")
<1>1. Rows = (C \cup L) \cup I
  <2>1. \A r \in Rows : session[s].rows[r].action \in Actions
    BY DEF Row
  <2> QED
    BY <2>1 DEF RowsTo, Actions
<1>2. C \cap L = {} /\ (C \cup L) \cap I = {}
  BY DEF RowsTo
<1>3. IsFiniteSet(C) /\ IsFiniteSet(L) /\ IsFiniteSet(I)
      /\ Cardinality(C) \in Nat /\ Cardinality(L) \in Nat /\ Cardinality(I) \in Nat
  BY RowsFinite
<1> HIDE DEF C, L, I
<1> DEFINE D == C \cup L
<1>4. IsFiniteSet(D) /\ Cardinality(D) = Cardinality(C) + Cardinality(L)
  BY <1>2, <1>3, FS_Union, FS_EmptySet
<1>5. Rows = D \cup I /\ D \cap I = {}
  BY <1>1, <1>2
<1> HIDE DEF D
<1>6. Cardinality(D \cup I) = Cardinality(D) + Cardinality(I) - Cardinality(D \cap I)
  BY <1>3, <1>4, FS_Union
<1>7. Cardinality(D \cap I) = 0
  BY <1>5, FS_EmptySet
<1>8. Cardinality(C) + Cardinality(L) + Cardinality(I) = Cardinality(Rows)
  BY <1>3, <1>4, <1>5, <1>6, <1>7
<1> QED
  BY <1>8 DEF C, L, I

\* A step that leaves the evidence and what is completed alone leaves the results.
LEMMA ResultsKept ==
  ASSUME ImportInv, ResultMatchesEvidence, evidence' = evidence,
         \A s \in Sessions :
           session'[s] # None /\ session'[s].status = "completed" =>
             session[s] # None /\ session[s].status = "completed"
               /\ session'[s].result = session[s].result
  PROVE  ResultMatchesEvidence'
BY DEF ResultMatchesEvidence

LEMMA ResultsOfCommit ==
  ASSUME ImportInv, ResultMatchesEvidence, NEW s \in Sessions, CommitImportSession(s)
  PROVE  ResultMatchesEvidence'
<1>1. IsDraft(s) /\ RowsTo(s, "undecided") = {}
  BY DEF CommitImportSession, Committable
<1>2. PICK id :
        /\ evidence' = evidence \cup
             {[session |-> s, row |-> r, tx |-> Target(s, r), kind |-> "link"] :
                r \in RowsTo(s, "link")} \cup
             {[session |-> s, row |-> r, tx |-> id[r], kind |-> "create"] :
                r \in RowsTo(s, "create")}
        /\ session' = [session EXCEPT ![s].status = "completed", ![s].result = Counts(s)]
  BY DEF CommitImportSession
<1> DEFINE link(r) == [session |-> s, row |-> r, tx |-> Target(s, r), kind |-> "link"]
           creation(r) == [session |-> s, row |-> r, tx |-> id[r], kind |-> "create"]
           links == {link(r) : r \in RowsTo(s, "link")}
           creations == {creation(r) : r \in RowsTo(s, "create")}
<1>3. evidence' = evidence \cup links \cup creations
  BY <1>2
<1>4. \A r : /\ link(r).session = s /\ link(r).kind = "link" /\ link(r).row = r
             /\ creation(r).session = s /\ creation(r).kind = "create" /\ creation(r).row = r
  OBVIOUS
<1> HIDE DEF link, creation
<1>5. /\ Cardinality(links) = Cardinality(RowsTo(s, "link"))
      /\ Cardinality(creations) = Cardinality(RowsTo(s, "create"))
  <2>1. RowsTo(s, "link") \in SUBSET Rows /\ RowsTo(s, "create") \in SUBSET Rows
    BY DEF RowsTo
  <2>2. /\ \A v \in links : v.row \in RowsTo(s, "link") /\ v = link(v.row)
        /\ \A r \in RowsTo(s, "link") : link(r) \in links
    BY <1>4
  <2>3. /\ \A v \in creations : v.row \in RowsTo(s, "create") /\ v = creation(v.row)
        /\ \A r \in RowsTo(s, "create") : creation(r) \in creations
    BY <1>4
  <2> HIDE DEF links, creations
  <2>4. /\ \A v, w \in links : v.row = w.row => v = w
        /\ \A r \in RowsTo(s, "link") : \E v \in links : v.row = r
        /\ \A v, w \in creations : v.row = w.row => v = w
        /\ \A r \in RowsTo(s, "create") : \E v \in creations : v.row = r
    BY <1>4, <2>2, <2>3
  <2> QED
    BY <2>1, <2>2, <2>3, <2>4, OnePerRow
<1>6. /\ \A v \in links : v.session = s /\ v.kind = "link"
      /\ \A v \in creations : v.session = s /\ v.kind = "create"
  BY <1>4
<1> HIDE DEF links, creations
<1>7. \A v \in evidence : v.session # s
  BY <1>1 DEF ImportInv, Carried, IsDraft
<1>8. /\ {v \in evidence' : v.session = s /\ v.kind = "link"} = links
      /\ {v \in evidence' : v.session = s /\ v.kind = "create"} = creations
  BY <1>3, <1>6, <1>7
<1>9. session[s] \in SessionRecords /\ session[s].rows \in [Rows -> Row]
  BY <1>1 DEF IsDraft, ImportInv, TypeOK, SessionRecords
<1>10. /\ session'[s].result = Counts(s)
       /\ \A q \in Sessions : q # s => session'[q] = session[q]
  BY <1>2, <1>9 DEF ImportInv, TypeOK, SessionRecords
<1>11. ASSUME NEW q \in Sessions, q # s, NEW kind
       PROVE  {v \in evidence' : v.session = q /\ v.kind = kind}
                = {v \in evidence : v.session = q /\ v.kind = kind}
  BY <1>3, <1>6, <1>11
<1>12. ASSUME NEW q \in Sessions, session'[q] # None, session'[q].status = "completed"
       PROVE  /\ session'[q].result.created
                   = Cardinality({v \in evidence' : v.session = q /\ v.kind = "create"})
              /\ session'[q].result.linked
                   = Cardinality({v \in evidence' : v.session = q /\ v.kind = "link"})
              /\ session'[q].result.created + session'[q].result.linked
                   + session'[q].result.ignored = Cardinality(Rows)
  <2>1. CASE q = s
    <3>1. /\ session'[q].result.created = Cardinality(RowsTo(s, "create"))
          /\ session'[q].result.linked = Cardinality(RowsTo(s, "link"))
          /\ session'[q].result.ignored = Cardinality(RowsTo(s, "ignore"))
      BY <1>10, <2>1 DEF Counts
    <3> QED
      BY <1>1, <1>5, <1>8, <1>9, <2>1, <3>1, EveryRowCounts
  <2>2. CASE q # s
    BY ZenonT(60), <1>10, <1>11, <1>12, <2>2 DEF ResultMatchesEvidence
  <2> QED
    BY <2>1, <2>2
<1> QED
  BY <1>12 DEF ResultMatchesEvidence

-----------------------------------------------------------------------------
(* The theorems *)

LEMMA InvInit == Init => ImportInv /\ ResultMatchesEvidence
<1> SUFFICES ASSUME Init PROVE ImportInv /\ ResultMatchesEvidence
  OBVIOUS
<1>1. PICK line \in [Existing -> Lines] :
        tx = [t \in Transactions |->
               IF t \in Existing THEN [line |-> line[t], exact |-> FALSE, cleared |-> FALSE]
               ELSE None]
  BY DEF Init
<1>2. tx \in [Transactions -> TransactionRecords \cup {None}]
  BY <1>1 DEF TransactionRecords
<1> QED
  BY <1>2 DEF Init, ImportInv, TypeOK, Found, StaysCleared, ClearedOnce, Carried,
              ResultMatchesEvidence

LEMMA InvNext ==
  ImportInv /\ ResultMatchesEvidence /\ [Next]_vars => ImportInv' /\ ResultMatchesEvidence'
<1> SUFFICES ASSUME ImportInv, ResultMatchesEvidence, [Next]_vars
             PROVE  ImportInv' /\ ResultMatchesEvidence'
  OBVIOUS
<1>1. ASSUME NEW s \in Sessions, CreateImportSession(s)
      PROVE  ImportInv' /\ ResultMatchesEvidence'
  <2>1. evidence' = evidence /\ \E rows :
          session' = [session EXCEPT ![s] = [status |-> "draft", rows |-> rows, result |-> None]]
    BY <1>1 DEF CreateImportSession
  <2>2. ResultMatchesEvidence'
    BY <2>1, ResultsKept DEF ImportInv, TypeOK
  <2> QED
    BY <1>1, <2>2, CreateStep
<1>2. ASSUME NEW s \in Sessions, CommitImportSession(s)
      PROVE  ImportInv' /\ ResultMatchesEvidence'
  BY <1>2, CommitStep, ResultsOfCommit
<1>3. ASSUME NEW s \in Sessions, CancelImportSession(s)
      PROVE  ImportInv' /\ ResultMatchesEvidence'
  <2>1. evidence' = evidence /\ session[s] # None
        /\ session' = [session EXCEPT ![s].status = "cancelled"]
    BY <1>3 DEF CancelImportSession, Cancellable, IsDraft
  <2>2. session[s] \in SessionRecords
    BY <2>1 DEF ImportInv, TypeOK
  <2>3. session'[s].status = "cancelled" /\ \A q \in Sessions \ {s} : session'[q] = session[q]
    BY <2>1, <2>2 DEF ImportInv, TypeOK, SessionRecords
  <2>4. ResultMatchesEvidence'
    BY <2>1, <2>3, ResultsKept
  <2> QED
    BY <1>3, <2>4, CancelStep
<1>4. ASSUME NEW e \in Editors, NEW s \in Sessions,
             \/ ReadUpdate(e, s)
             \/ \E r \in Rows, action \in Actions \ {"undecided"}, t \in Transactions \cup {None} :
                  ReadResolve(e, s, r, action, t)
      PROVE  ImportInv' /\ ResultMatchesEvidence'
  <2>1. UNCHANGED <<session, evidence>>
    BY <1>4 DEF ReadUpdate, ReadResolve
  <2> QED
    BY <1>4, <2>1, ReadStep, ResultsKept
<1>5. ASSUME NEW e \in Editors, WriteRows(e) PROVE ImportInv' /\ ResultMatchesEvidence'
  <2> DEFINE d == draft[e]
  <2>1. /\ d \in DraftRecords /\ session[d.session] # None /\ evidence' = evidence
        /\ \/ session' = session
           \/ session' = [session EXCEPT ![d.session].rows = d.rows]
    BY <1>5 DEF WriteRows, ImportInv, TypeOK, Found
  <2>2. d.session \in Sessions /\ session[d.session] \in SessionRecords
    BY <2>1 DEF DraftRecords, ImportInv, TypeOK
  <2> HIDE DEF d
  <2>3. /\ session'[d.session].status = session[d.session].status
        /\ session'[d.session].result = session[d.session].result
        /\ \A q \in Sessions \ {d.session} : session'[q] = session[q]
    BY <2>1, <2>2 DEF ImportInv, TypeOK, SessionRecords
  <2>4. ResultMatchesEvidence'
    BY <2>1, <2>3, ResultsKept
  <2> QED
    BY <1>5, <2>4, WriteStep
<1>6. ASSUME NEW t \in Mutable, EditTransaction(t) \/ DeleteTransaction(t)
      PROVE  ImportInv' /\ ResultMatchesEvidence'
  <2>1. UNCHANGED <<session, evidence>>
    BY <1>6 DEF EditTransaction, DeleteTransaction
  <2> QED
    BY <1>6, <2>1, LedgerStep, ResultsKept
<1>7. CASE UNCHANGED vars
  BY <1>7 DEF vars, ImportInv, TypeOK, Found, StaysCleared, ClearedOnce, Carried,
              ResultMatchesEvidence
<1> QED
  BY <1>1, <1>2, <1>3, <1>4, <1>5, <1>6, <1>7 DEF Next

LEMMA Reachable == Spec => [](ImportInv /\ ResultMatchesEvidence)
BY InvInit, InvNext, PTL DEF Spec

\* The sessions, the ledger, the evidence and what editors hold keep their types
\* (import_session.go, imports.go).
THEOREM ImportsTyped == Spec => []TypeOK
<1>1. ImportInv => TypeOK
  BY DEF ImportInv
<1> QED
  BY <1>1, Reachable, PTL

\* Of all rows of all statements that propose a transaction, however their sessions
\* interleave, at most one ever clears it (clearLinkedTransaction).
THEOREM ClearedAtMostOnce == Spec => []ClearedOnce
<1>1. ImportInv => ClearedOnce
  BY DEF ImportInv
<1> QED
  BY <1>1, Reachable, PTL

\* No row is carried out twice, and none of a session that is cancelled or still a
\* draft (CommitImportSession).
THEOREM CarriedOutAtMostOnce == Spec => []CarriedOutOnce
<1>1. ImportInv => CarriedOutOnce
  BY DEF ImportInv, Carried, CarriedOutOnce
<1> QED
  BY <1>1, Reachable, PTL

\* The counts a completed session reports are those of the transactions it created
\* and linked, and every row of the statement is among them (ImportResult).
THEOREM ResultsAreEvidenced == Spec => []ResultMatchesEvidence
BY Reachable, PTL
=============================================================================
